---- MODULE Spec2Model ----
(***************************************************************************)
(* TerraVision AI: the chat route's agent loop (src/app/api/chat/route.ts) *)
(* with its five tools, and the Sentinel Hub credential cache              *)
(* (lib/services/sentinel.ts, getAccessToken).                             *)
(*                                                                         *)
(* Spec      : one POST to /api/chat: model steps, tool calls, transcript. *)
(* SpecToken : getAccessToken calls of one process, sequential and         *)
(*             interleaved at their await points, over a clock.            *)
(***************************************************************************)
EXTENDS Integers, Sequences, FiniteSets, TLC

VARIABLES
    \* ---- one POST to the chat route ----
    pc,            \* "model": a model request is in flight; "tools": the step's
                   \* tool calls are executing; "done": the stream has finished
    step,          \* number of model requests issued so far in this request
    calls,         \* tool calls of the current step, in the order the model emitted them
    transcript,    \* one record per finished step: what was appended for the model
    sent,          \* number of finished steps whose messages the last model request carried
    finishReason,  \* "none" | "stop" | "tool-calls" | "error"
    lastSearch,    \* outcome of the latest finished searchScenes call of this request
    returnedDates, \* capture dates searchScenes results have returned in this request
    \* ---- the credential cache of lib/services/sentinel.ts ----
    now,           \* Math.floor(Date.now() / 1000)
    env,           \* TRUE when SENTINEL_CLIENT_ID and SENTINEL_CLIENT_SECRET are set
    cachedToken,   \* module-level cachedToken: NoToken or [access_token, exp]
    tpc,           \* per caller of getAccessToken: "idle" | "fetch" | "json" | "returned" | "thrown"
    tnow,          \* per call in flight: its local `now`
    tres,          \* per call in flight: the token response it received
    tret,          \* per call: the token it returned
    exchanges,     \* number of requests sent to AUTH_URL
    \* ---- the rate limiter of lib/services/geocoding.ts ----
    gnow,            \* Date.now(), in ms
    lastRequestTime, \* module-level lastRequestTime
    gpc,             \* per lookupLocation call: "idle" | "waiting" | "fetching" | "done"
    gwake,           \* per waiting call: the time its setTimeout is due
    sentAt,          \* the times at which requests were issued to Nominatim, in order
    \* ---- one searchScenes invocation, from the catalog request on ----
    cpc,             \* "idle" | "fetch" | "picked" | "settled"
    cdata,           \* the catalog's response body: [hasFeatures, features]
    cscene,          \* what searchSatelliteImages returned: NoScene or a scene
    cresult,         \* what the searchScenes tool returned
    \* ---- one invocation of a tool's executor and of its provider client ----
    kcall,           \* the tool invoked and what the outside world does: [tool, o]
    kret,            \* what the provider client did: NotCalled, a throw or a return
    kres,            \* what the executor gave the loop
    \* ---- one bounding box on its way through the program ----
    bpc,             \* "idle" | "input" | "done"
    bin,             \* where it comes from and what was given: [path, kind, json, str, strs, has]
    bval,            \* the bounding box the path produced, NoBBox when it produced none
    bpoly,           \* the polygon bboxToPolygon made of it, NoPolygon when not called
    bclient,         \* the provider endpoint the box reached, "none" when it reached none
    \* ---- one date range on its way to the catalog search ----
    rpc,             \* "idle" | "input" | "done"
    rin,             \* where it comes from and what was given: [path, from, to, dates]
    rreq,            \* the catalog request searchSatelliteImages sent for it, NoReq when none
    \* ---- one statistics response on its way through the getVegetationStats tool ----
    spc,             \* "idle" | "response" | "extracted" | "returned"
    sresp,           \* the Statistical API response: [level, bands]
    sstats,          \* what extractNDVIStatsForLLM returned, "unset" before it ran
    sresult,          \* what the tool's execute returned, NoResult before it did
    \* ---- the response stream of one POST /api/chat and its caller ----
    xconn,           \* "idle" | "open" | "closed" (the caller cancelled)
    xevents,         \* the executors whose tool-result event was written to the caller
    xcache,           \* cachedToken as it was when the caller cancelled
    \* ---- one GET /api/satellite ----
    qpc,             \* "idle" | "request" | "called" | "answered"
    qreq,            \* the query: [action, bbox, p1, p2, geometry]
    qcalled,         \* the service function the route called, "none" when none
    qresp,            \* the response: [status, body, error]
    \* ---- the tool status indicator of the chat UI ----
    mpc,             \* "idle" | "messages" | "rendered"
    mmsgs,           \* the messages of useChat: a sequence of [role, parts]
    mstatus,          \* activeToolStatus: the label's tool, "null" for null
    \* ---- one ChatArea component (and its MapSelector) ----
    uvariant,        \* "none" | "agent" (useChat, /api/chat) | "rule" (parseUserIntent, /api/satellite)
    uinput,          \* the chat input
    umap,            \* isMapSelectionMode
    ulayers,         \* the shapes drawn in the MapSelector's feature group
    ustatus,         \* "ready" | "submitted" | "streaming" | "error"; isLoading is derived
    umessages,       \* the transcript: a sequence of [role, content]
    uflight,         \* requests sent and not yet settled
    uintent,         \* rule-based: the intent of the request in flight, "none" otherwise
    ucallback        \* the handler that ran last

chatVars == <<pc, step, calls, transcript, sent, finishReason, lastSearch, returnedDates>>
tokenVars == <<now, env, cachedToken, tpc, tnow, tres, tret, exchanges>>
geoVars == <<gnow, lastRequestTime, gpc, gwake, sentAt>>
catVars == <<cpc, cdata, cscene, cresult>>
clientVars == <<kcall, kret, kres>>
bboxVars == <<bpc, bin, bval, bpoly, bclient>>
rangeVars == <<rpc, rin, rreq>>
statsVars == <<spc, sresp, sstats, sresult>>
cancelVars == <<xconn, xevents, xcache>>
routeVars == <<qpc, qreq, qcalled, qresp>>
statusVars == <<mpc, mmsgs, mstatus>>
uiVars == <<uvariant, uinput, umap, ulayers, ustatus, umessages, uflight, uintent, ucallback>>
vars == <<chatVars, tokenVars, geoVars, catVars, clientVars, bboxVars, rangeVars, statsVars, cancelVars, routeVars, statusVars, uiVars>>

(***************************************************************************)
(* Bounds of the model.                                                    *)
(***************************************************************************)
MaxCalls == 2        \* tool calls the model emits in one step
MaxTime == 120       \* the clock stops advancing here
MaxExchanges == 2    \* requests to AUTH_URL in one behaviour
NumCallers == 2      \* getAccessToken calls that may be in flight together
NumLookups == 3      \* lookupLocation calls, each of a request of its own
MaxClock == 3500     \* the ms clock stops advancing here
MaxFeatures == 3     \* features in one catalog response
MaxStamp == 2        \* distinct capture timestamps

(***************************************************************************)
(* JSON values the model may put into a tool call. Strings are sequences   *)
(* of characters, so that templates and formats are computed, not assumed. *)
(***************************************************************************)
Num(n) == [t |-> "number", n |-> n, s |-> <<>>]
Str(s) == [t |-> "string", n |-> 0, s |-> s]
Undefined == [t |-> "undefined", n |-> 0, s |-> <<>>]

Digits == {"0", "1", "2", "3", "4", "5", "6", "7", "8", "9"}

Date1 == <<"2", "0", "2", "4", "-", "0", "1", "-", "0", "5">>
Date2 == <<"2", "0", "2", "4", "-", "0", "1", "-", "1", "5">>
Banana == <<"s", "o", "o", "n">>
Iowa == <<"I", "o", "w", "a">>

\* YYYY-MM-DD, the format the system prompt and the schema descriptions name
IsWellFormedDate(s) ==
    /\ Len(s) = 10
    /\ \A i \in {1, 2, 3, 4, 6, 7, 9, 10} : s[i] \in Digits
    /\ s[5] = "-"
    /\ s[8] = "-"

DayStart == <<"T", "0", "0", ":", "0", "0", ":", "0", "0", "Z">>
DayEnd == <<"T", "2", "3", ":", "5", "9", ":", "5", "9", "Z">>

(***************************************************************************)
(* Tool inputs. Every input is a record with the same fields; a field a    *)
(* tool does not declare is Undefined (bbox: the empty array).             *)
(***************************************************************************)
BBoxOk == <<Num(10), Num(50), Num(11), Num(51)>>
BBoxLen3 == <<Num(10), Num(50), Num(11)>>
BBoxMixed == <<Num(10), Str(Banana), Num(11), Num(51)>>
BBoxArgs == {BBoxOk, BBoxLen3, BBoxMixed}

DateArgs == {Str(Date1), Str(Date2), Str(Banana), Num(5)}

Input(q, b, f, t, d) == [query |-> q, bbox |-> b, from |-> f, to |-> t, date |-> d]

SentinelTools == {"searchScenes", "getVegetationStats", "generateNDVI", "generateTrueColor"}
DateTools == {"getVegetationStats", "generateNDVI", "generateTrueColor"}
Tools == {"lookupLocation"} \cup SentinelTools

ToolCallInputs ==
    {[tool |-> "lookupLocation", input |-> Input(q, <<>>, Undefined, Undefined, Undefined)] :
        q \in {Str(Iowa), Num(5)}}
    \cup {[tool |-> "searchScenes", input |-> Input(Undefined, b, f, Str(Date2), Undefined)] :
        b \in BBoxArgs, f \in {Str(Date1), Str(Banana), Num(5)}}
    \cup {[tool |-> tl, input |-> Input(Undefined, b, Undefined, Undefined, d)] :
        tl \in DateTools, b \in BBoxArgs, d \in DateArgs}

\* calls the model emits beside a first one in the same step
ParallelInputs ==
    {[tool |-> "lookupLocation",
      input |-> Input(Str(Iowa), <<>>, Undefined, Undefined, Undefined)],
     [tool |-> "searchScenes",
      input |-> Input(Undefined, BBoxLen3, Str(Date1), Str(Date2), Undefined)]}

RECURSIVE SeqsUpTo(_, _)
SeqsUpTo(S, n) ==
    IF n = 0 THEN {<<>>}
    ELSE LET shorter == SeqsUpTo(S, n - 1)
         IN  shorter \cup {Append(q, x) : q \in shorter, x \in S}

\* what one model response may ask for: no tool call, or up to MaxCalls of them
ModelTurns ==
    {<<>>} \cup {<<c>> \o rest : c \in ToolCallInputs, rest \in SeqsUpTo(ParallelInputs, MaxCalls - 1)}

(***************************************************************************)
(* inputSchema of each tool (zod), route.ts.                               *)
(***************************************************************************)
\* z.array(z.number()) without .length(4)
BBoxSchemaAnyLength(b) == \A i \in 1..Len(b) : b[i].t = "number"

\* z.array(z.number()).length(4)
BBoxSchema(b) ==
    /\ Len(b) = 4
    /\ \A i \in 1..Len(b) : b[i].t = "number"

\* z.string()
StringSchema(v) == v.t = "string"

inputSchema(tool, input) ==
    CASE tool = "lookupLocation" -> StringSchema(input.query)
      [] tool = "searchScenes" ->
            BBoxSchema(input.bbox) /\ StringSchema(input.from) /\ StringSchema(input.to)
      [] OTHER -> BBoxSchema(input.bbox) /\ StringSchema(input.date)

(***************************************************************************)
(* What the outside world does during one tool execution.                  *)
(*   auth : getAccessToken inside the Sentinel client                      *)
(*   api  : the provider endpoint's answer                                 *)
(*   date : the capture date of the newest scene the catalog returns       *)
(***************************************************************************)
AuthOutcomes == {"cached", "exchanged", "missing_env", "auth_failed"}
ApiOutcomes == {"network", "http", "parse", "empty", "ok"}
Outcomes == [auth : AuthOutcomes, api : ApiOutcomes, date : {Date1}]

\* one outbound request: its endpoint, its time range, and which attempt at
\* that endpoint within the invocation it is
Req(url, from, to) == [url |-> url, from |-> from, to |-> to, attempt |-> 1]

Thrown(msg, reqs) == [threw |-> TRUE, msg |-> msg, value |-> "none", date |-> <<>>, requests |-> reqs]
Returned(v, d, reqs) == [threw |-> FALSE, msg |-> "", value |-> v, date |-> d, requests |-> reqs]

\* a getClientCredentials that hands on whatever the environment holds, so that
\* the exchange is attempted and refused
AccessTokenUnchecked(o) ==
    CASE o.auth = "cached" -> Returned("token", <<>>, {})
      [] o.auth = "exchanged" -> Returned("token", <<>>, {Req("token", <<>>, <<>>)})
      [] OTHER -> Thrown("Sentinel Hub auth failed", {Req("token", <<>>, <<>>)})

\* getAccessToken as the Sentinel clients see it (its cache is SpecToken's subject)
AccessToken(o) ==
    CASE o.auth = "cached" -> Returned("token", <<>>, {})
      [] o.auth = "exchanged" -> Returned("token", <<>>, {Req("token", <<>>, <<>>)})
      [] o.auth = "missing_env" ->
            Thrown("Missing SENTINEL_CLIENT_ID or SENTINEL_CLIENT_SECRET in environment", {})
      [] OTHER -> Thrown("Sentinel Hub auth failed", {Req("token", <<>>, <<>>)})

\* a client that asks the endpoint a second time when the first request fails
SentinelCallRetrying(req, failMsg, o) ==
    LET tok == AccessToken(o)
        reqs == tok.requests \cup {req}
        again == reqs \cup {[req EXCEPT !.attempt = 2]}
    IN  IF tok.threw THEN tok
        ELSE CASE o.api = "network" -> Thrown("fetch failed", again)
               [] o.api = "http" -> Thrown(failMsg, again)
               [] o.api = "parse" -> Thrown("Unexpected end of JSON input", reqs)
               [] o.api = "empty" -> Returned("null", <<>>, reqs)
               [] OTHER -> Returned("value", o.date, reqs)

\* const token = await getAccessToken(); const res = await fetch(URL, body);
\* if (!res.ok) throw new Error(failMsg); return res.json()
SentinelCall(req, failMsg, o) ==
    LET tok == AccessToken(o)
        reqs == tok.requests \cup {req}
    IN  IF tok.threw THEN tok
        ELSE CASE o.api = "network" -> Thrown("fetch failed", reqs)
               [] o.api = "http" -> Thrown(failMsg, reqs)
               [] o.api = "parse" -> Thrown("Unexpected end of JSON input", reqs)
               [] o.api = "empty" -> Returned("null", <<>>, reqs)
               [] OTHER -> Returned("value", o.date, reqs)

Includes(s, c) == \E i \in 1..Len(s) : s[i] = c

\* dateRange.from.includes("T") ? dateRange.from : `${dateRange.from}T00:00:00Z`
searchSatelliteImages(bbox, from, to, o) ==
    LET fromStr == IF Includes(from, "T") THEN from ELSE from \o DayStart
        toStr == IF Includes(to, "T") THEN to ELSE to \o DayEnd
    IN  SentinelCall(Req("catalog", fromStr, toStr), "Sentinel Hub Catalog search failed", o)

\* getVegetationStats (timeRange from `${date}T00:00:00Z` to `${date}T23:59:59Z`)
\* followed by extractNDVIStatsForLLM, which gives null when no stats are found
getVegetationStats(polygon, date, o) ==
    SentinelCall(Req("statistics", date \o DayStart, date \o DayEnd),
                 "Sentinel Hub Statistical API failed", o)

\* generateNDVIImage and generateTrueColorImage: the bytes of the response, never null
generateImage(bbox, date, o) ==
    LET r == SentinelCall(Req("process", date \o DayStart, date \o DayEnd),
                          "Sentinel Hub Process API failed", o)
    IN  IF ~r.threw /\ r.value = "null" THEN Returned("value", <<>>, r.requests) ELSE r

\* geocoding: a non-success status and a response without a usable bounding box give null
lookupLocation(query, o) ==
    LET reqs == {Req("nominatim", <<>>, <<>>)}
    IN  CASE o.api = "network" -> Thrown("fetch failed", reqs)
          [] o.api = "parse" -> Thrown("Unexpected end of JSON input", reqs)
          [] o.api \in {"http", "empty"} -> Returned("null", <<>>, reqs)
          [] OTHER -> Returned("value", <<>>, reqs)

(***************************************************************************)
(* The tools' executors (route.ts): try { provider call } catch { error }. *)
(***************************************************************************)
NoResult == [kind |-> "none", error |-> "", date |-> <<>>]
ErrorValue(msg) == [kind |-> "error", error |-> msg, date |-> <<>>]
Output(d) == [kind |-> "output", error |-> "", date |-> d]
FoundFalse == [kind |-> "found_false", error |-> "", date |-> <<>>]
InvalidInput == [kind |-> "invalid_input", error |-> "Invalid input for tool", date |-> <<>>]

Settled(st, res, r) == [state |-> st, result |-> res, requests |-> r.requests, threw |-> r.threw]

\* an executor that lets the provider's error escape: the step records a failed tool
Rethrown(r) == Settled("errored", ErrorValue(r.msg), r)

\* catch (err) { return { error: err instanceof Error ? err.message : "..." } }
Caught(r) == Settled("completed", ErrorValue(r.msg), r)

execute(tool, input, o) ==
    CASE tool = "lookupLocation" ->
            LET loc == lookupLocation(input.query.s, o)
            IN  IF loc.threw THEN Caught(loc)
                ELSE IF loc.value = "null"
                THEN Settled("completed",
                             ErrorValue("Location not found. Please try another name or add more detail."),
                             loc)
                ELSE Settled("completed", Output(<<>>), loc)
      [] tool = "searchScenes" ->
            LET scene == searchSatelliteImages(input.bbox, input.from.s, input.to.s, o)
            IN  IF scene.threw THEN Caught(scene)
                ELSE IF scene.value = "null" THEN Settled("completed", FoundFalse, scene)
                ELSE Settled("completed", Output(scene.date), scene)
      [] tool = "getVegetationStats" ->
            LET stats == getVegetationStats(input.bbox, input.date.s, o)
            IN  IF stats.threw THEN Caught(stats)
                ELSE IF stats.value = "null"
                THEN Settled("completed",
                             ErrorValue("No NDVI statistics returned for this area/date."), stats)
                ELSE Settled("completed", Output(<<>>), stats)
      [] OTHER ->
            LET buffer == generateImage(input.bbox, input.date.s, o)
            IN  IF buffer.threw THEN Caught(buffer)
                ELSE Settled("completed", Output(<<>>), buffer)

(***************************************************************************)
(* streamText({ ..., stopWhen: stepCountIs(5), tools }): the step loop.    *)
(***************************************************************************)
MaxSteps == 5

\* a stop condition that lets one step too many through
stepCountIsOffByOne(n, steps) == Len(steps) = n + 1

stepCountIs(n, steps) == Len(steps) = n

\* a loop that gates statistics and imagery on an earlier successful search
\* which returned the requested date
GatedParseToolCall(c) ==
    IF /\ inputSchema(c.tool, c.input)
       /\ c.tool \in DateTools => (lastSearch = "found" /\ c.input.date.s \in returnedDates)
    THEN [tool |-> c.tool, input |-> c.input, state |-> "pending", result |-> NoResult,
          requests |-> {}, threw |-> FALSE]
    ELSE [tool |-> c.tool, input |-> c.input, state |-> "errored", result |-> InvalidInput,
          requests |-> {}, threw |-> FALSE]

\* a tool call as the loop holds it: rejected when its input fails the schema
\* (the executor is not invoked), handed to the executor otherwise
ParseToolCall(c) ==
    IF inputSchema(c.tool, c.input)
    THEN [tool |-> c.tool, input |-> c.input, state |-> "pending", result |-> NoResult,
          requests |-> {}, threw |-> FALSE]
    ELSE [tool |-> c.tool, input |-> c.input, state |-> "errored", result |-> InvalidInput,
          requests |-> {}, threw |-> FALSE]

\* what a finished step adds to the transcript: whether the assistant message
\* holds tool calls, and whether each of them is followed by its tool result
StepRecord(cs) ==
    [hasToolCalls |-> Len(cs) > 0,
     resultsComplete |-> \A i \in 1..Len(cs) : cs[i].state # "pending"]

\* a loop that goes on as soon as one tool call has its result
SomeToolSettled(cs) == \E i \in 1..Len(cs) : cs[i].state # "pending"

\* every tool call of the step has its result (or its error)
ToolsSettled(cs) == \A i \in 1..Len(cs) : cs[i].state # "pending"

ChatInit ==
    /\ pc = "model"
    /\ step = 1
    /\ calls = <<>>
    /\ transcript = <<>>
    /\ sent = 0
    /\ finishReason = "none"
    /\ lastSearch = "none"
    /\ returnedDates = {}

\* the model answers with tool calls
ModelCallsTools ==
    /\ pc = "model"
    /\ \E turn \in ModelTurns \ {<<>>} :
          calls' = [i \in 1..Len(turn) |-> ParseToolCall(turn[i])]
    /\ pc' = "tools"
    /\ UNCHANGED <<step, transcript, sent, finishReason, lastSearch, returnedDates>>

\* a loop that asks the model again after a text-only answer
ModelStopsAndContinues ==
    /\ pc = "model"
    /\ step < MaxSteps
    /\ transcript' = Append(transcript, StepRecord(<<>>))
    /\ pc' = "model"
    /\ step' = step + 1
    /\ sent' = Len(transcript')
    /\ UNCHANGED <<calls, finishReason, lastSearch, returnedDates>>

\* the model answers with text only: the loop ends
ModelStops ==
    /\ pc = "model"
    /\ transcript' = Append(transcript, StepRecord(<<>>))
    /\ pc' = "done"
    /\ finishReason' = "stop"
    /\ UNCHANGED <<step, calls, sent, lastSearch, returnedDates>>

\* the request to the model fails (transport): the stream ends with an error
ModelFails ==
    /\ pc = "model"
    /\ pc' = "done"
    /\ finishReason' = "error"
    /\ UNCHANGED <<step, calls, transcript, sent, lastSearch, returnedDates>>

SearchStatus(res) ==
    CASE res.kind = "output" -> "found"
      [] res.kind = "found_false" -> "not_found"
      [] OTHER -> "error"

\* one pending tool call's executor finishes
ToolReturns ==
    /\ pc = "tools"
    /\ \E i \in 1..Len(calls), o \in Outcomes :
          /\ calls[i].state = "pending"
          /\ LET c == calls[i]
                 e == execute(c.tool, c.input, o)
             IN  /\ calls' = [calls EXCEPT ![i] =
                        [tool |-> c.tool, input |-> c.input, state |-> e.state,
                         result |-> e.result, requests |-> e.requests, threw |-> e.threw]]
                 /\ IF c.tool = "searchScenes"
                    THEN /\ lastSearch' = SearchStatus(e.result)
                         /\ returnedDates' =
                              IF e.result.kind = "output"
                              THEN returnedDates \cup {e.result.date}
                              ELSE returnedDates
                    ELSE UNCHANGED <<lastSearch, returnedDates>>
    /\ UNCHANGED <<pc, step, transcript, sent, finishReason>>

\* the step ends: its results join the transcript; the loop goes on unless the
\* stop condition holds
StepFinish ==
    /\ pc = "tools"
    /\ ToolsSettled(calls)
    /\ transcript' = Append(transcript, StepRecord(calls))
    /\ calls' = <<>>
    /\ IF stepCountIs(MaxSteps, transcript')
       THEN /\ pc' = "done"
            /\ finishReason' = "tool-calls"
            /\ UNCHANGED <<step, sent>>
       ELSE /\ pc' = "model"
            /\ step' = step + 1
            /\ sent' = Len(transcript')
            /\ UNCHANGED finishReason
    /\ UNCHANGED <<lastSearch, returnedDates>>

(***************************************************************************)
(* The credential cache: cachedToken and getAccessToken (sentinel.ts).     *)
(* A call runs synchronously up to its first await (the fetch), so the     *)
(* cache check, the credentials check and the sending of the request are   *)
(* one step; the response, and the body, arrive in later steps, between    *)
(* which other calls and the clock may move.                               *)
(***************************************************************************)
Callers == 1..NumCallers
TickSteps == {30}

\* a JWT: its serial number and the exp of its payload (0: none, or not decodable)
Jwt(id, e) == [id |-> id, exp |-> e]
NoJwt == Jwt(0, 0)
\* let cachedToken = null
NoToken == [access_token |-> NoJwt, exp |-> 0]
NoResponse == [access_token |-> NoJwt, expires_in |-> 0]

\* token responses: expires_in (0: absent) and the exp claim inside the JWT
Responses == {[expires_in |-> 90, exp |-> 0], [expires_in |-> 45, exp |-> 0],
              [expires_in |-> 0, exp |-> 120], [expires_in |-> 0, exp |-> 0]}

\* decoded.exp ?? 0, and 0 when the payload cannot be read
getExpFromToken(token) == token.exp

\* a cache check that forgets the 60 s margin
CacheFreshNoMargin(c, t) == c # NoToken /\ c.exp > t

\* a cache check that never lets a token expire
CacheFreshForever(c, t) == c # NoToken

\* cachedToken && cachedToken.exp > now + 60
CacheFresh(c, t) == c # NoToken /\ c.exp > t + 60

\* data.expires_in ? now + data.expires_in : getExpFromToken(data.access_token)
ExpOf(p) ==
    IF tres[p].expires_in # 0
    THEN tnow[p] + tres[p].expires_in
    ELSE getExpFromToken(tres[p].access_token)

\* { access_token: data.access_token, exp }
TokenObject(p) == [access_token |-> tres[p].access_token, exp |-> ExpOf(p)]

\* a write that updates the token in place and keeps the expiry already there
TornCacheWrite(p) ==
    [access_token |-> tres[p].access_token,
     exp |-> IF cachedToken = NoToken THEN ExpOf(p) ELSE cachedToken.exp]

\* cachedToken = { access_token: data.access_token, exp }
CacheWrite(p) == TokenObject(p)

InFlight(p) == tpc[p] \in {"fetch", "json"}

TokenInit ==
    /\ now = 0
    /\ env \in BOOLEAN
    /\ cachedToken = NoToken
    /\ tpc = [p \in Callers |-> "idle"]
    /\ tnow = [p \in Callers |-> 0]
    /\ tres = [p \in Callers |-> NoResponse]
    /\ tret = [p \in Callers |-> NoJwt]
    /\ exchanges = 0

\* getAccessToken() is called: lines 101-117, up to `await fetch(AUTH_URL, ...)`
Call(p) ==
    /\ ~InFlight(p)
    /\ IF CacheFresh(cachedToken, now)
       THEN /\ tpc' = [tpc EXCEPT ![p] = "returned"]
            /\ tret' = [tret EXCEPT ![p] = cachedToken.access_token]
            /\ UNCHANGED <<tnow, exchanges>>
       ELSE IF ~env
       THEN /\ tpc' = [tpc EXCEPT ![p] = "thrown"]
            /\ tret' = [tret EXCEPT ![p] = NoJwt]
            /\ UNCHANGED <<tnow, exchanges>>
       ELSE /\ exchanges < MaxExchanges
            /\ tpc' = [tpc EXCEPT ![p] = "fetch"]
            /\ tnow' = [tnow EXCEPT ![p] = now]
            /\ tret' = [tret EXCEPT ![p] = NoJwt]
            /\ exchanges' = exchanges + 1
    /\ UNCHANGED <<now, env, cachedToken, tres>>

\* a failure path that stores the token it did not get
ExchangeFailsCachingEmpty(p) ==
    /\ tpc[p] = "fetch"
    /\ tpc' = [tpc EXCEPT ![p] = "thrown"]
    /\ tnow' = [tnow EXCEPT ![p] = 0]
    /\ cachedToken' = [access_token |-> NoJwt, exp |-> 0]
    /\ UNCHANGED <<now, env, tres, tret, exchanges>>

\* fetch rejects (network), or resolves with a non-success status: the call throws
ExchangeFails(p) ==
    /\ tpc[p] = "fetch"
    /\ tpc' = [tpc EXCEPT ![p] = "thrown"]
    /\ tnow' = [tnow EXCEPT ![p] = 0]
    /\ UNCHANGED <<now, env, cachedToken, tres, tret, exchanges>>

\* fetch resolves with status 200 and a token the server has not issued before;
\* the body is read at the next await
ExchangeResponds(p) ==
    /\ tpc[p] = "fetch"
    /\ \E r \in Responses :
          tres' = [tres EXCEPT ![p] =
                    [access_token |-> Jwt(exchanges * NumCallers + p, r.exp),
                     expires_in |-> r.expires_in]]
    /\ tpc' = [tpc EXCEPT ![p] = "json"]
    /\ UNCHANGED <<now, env, cachedToken, tnow, tret, exchanges>>

\* res.json() rejects: the payload is not JSON
BodyFails(p) ==
    /\ tpc[p] = "json"
    /\ tpc' = [tpc EXCEPT ![p] = "thrown"]
    /\ tnow' = [tnow EXCEPT ![p] = 0]
    /\ tres' = [tres EXCEPT ![p] = NoResponse]
    /\ UNCHANGED <<now, env, cachedToken, tret, exchanges>>

\* res.json() resolves: lines 124-132
BodyArrives(p) ==
    /\ tpc[p] = "json"
    /\ cachedToken' = CacheWrite(p)
    /\ tret' = [tret EXCEPT ![p] = tres[p].access_token]
    /\ tpc' = [tpc EXCEPT ![p] = "returned"]
    /\ tnow' = [tnow EXCEPT ![p] = 0]
    /\ tres' = [tres EXCEPT ![p] = NoResponse]
    /\ UNCHANGED <<now, env, exchanges>>

\* the clock
Tick ==
    /\ \E d \in TickSteps :
          /\ now + d <= MaxTime
          /\ now' = now + d
    /\ UNCHANGED <<env, cachedToken, tpc, tnow, tres, tret, exchanges>>

(***************************************************************************)
(* The geocoder's rate limiter: lastRequestTime and rateLimit              *)
(* (geocoding.ts). Every lookupLocation call belongs to a request of its   *)
(* own. rateLimit runs synchronously; a call that need not wait issues its *)
(* fetch in the same turn of the event loop, a call that must wait issues  *)
(* it when its timer fires.                                                *)
(***************************************************************************)
RATE_LIMIT_MS == 1000

Lookups == 1..NumLookups
TickMs == {250}

\* a rate limiter that never records the time of a request
rateLimitNoWrite(t, last) ==
    LET elapsed == t - last
    IN  IF elapsed < RATE_LIMIT_MS
        THEN [waits |-> TRUE, delay |-> RATE_LIMIT_MS - elapsed, lastRequestTime |-> last]
        ELSE [waits |-> FALSE, delay |-> 0, lastRequestTime |-> last]

\* rateLimit(): t is Date.now(), last is lastRequestTime; the branch that
\* waits returns without writing lastRequestTime
rateLimit(t, last) ==
    LET elapsed == t - last
    IN  IF elapsed < RATE_LIMIT_MS
        THEN [waits |-> TRUE, delay |-> RATE_LIMIT_MS - elapsed, lastRequestTime |-> last]
        ELSE [waits |-> FALSE, delay |-> 0, lastRequestTime |-> t]

\* let lastRequestTime = 0; the process starts long after the epoch
GeoInit ==
    /\ gnow = 2 * RATE_LIMIT_MS
    /\ lastRequestTime = 0
    /\ gpc = [p \in Lookups |-> "idle"]
    /\ gwake = [p \in Lookups |-> 0]
    /\ sentAt = <<>>

\* lookupLocation(query) is called: `await rateLimit()`, and the fetch when
\* the promise is already resolved
LookupCalled(p) ==
    /\ gpc[p] = "idle"
    /\ LET r == rateLimit(gnow, lastRequestTime)
       IN  /\ lastRequestTime' = r.lastRequestTime
           /\ IF r.waits
              THEN /\ gpc' = [gpc EXCEPT ![p] = "waiting"]
                   /\ gwake' = [gwake EXCEPT ![p] = gnow + r.delay]
                   /\ UNCHANGED sentAt
              ELSE /\ gpc' = [gpc EXCEPT ![p] = "fetching"]
                   /\ sentAt' = Append(sentAt, gnow)
                   /\ UNCHANGED gwake
    /\ UNCHANGED gnow

\* setTimeout(resolve, RATE_LIMIT_MS - elapsed) fires, at its due time or
\* later: the call goes on to its fetch
TimerFires(p) ==
    /\ gpc[p] = "waiting"
    /\ gnow >= gwake[p]
    /\ gpc' = [gpc EXCEPT ![p] = "fetching"]
    /\ gwake' = [gwake EXCEPT ![p] = 0]
    /\ sentAt' = Append(sentAt, gnow)
    /\ UNCHANGED <<gnow, lastRequestTime>>

\* Nominatim answers (or the fetch fails): the call is over
NominatimResponds(p) ==
    /\ gpc[p] = "fetching"
    /\ gpc' = [gpc EXCEPT ![p] = "done"]
    /\ UNCHANGED <<gnow, lastRequestTime, gwake, sentAt>>

\* the ms clock
GeoTick ==
    /\ \E d \in TickMs :
          /\ gnow + d <= MaxClock
          /\ gnow' = gnow + d
    /\ UNCHANGED <<lastRequestTime, gpc, gwake, sentAt>>

(***************************************************************************)
(* searchSatelliteImages from the catalog's response on, and the           *)
(* searchScenes executor (sentinel.ts 171-197, route.ts 89-110).           *)
(* A datetime is the rank of its string in the order `<` gives strings;    *)
(* rank 0 is the empty string, which `?? ""` puts for an absent datetime.  *)
(***************************************************************************)
MAX_CLOUD_COVER_PERCENT == 10

Stamps == 0..MaxStamp
CloudLevels == {3, 5, 20}
\* filter: { op: "<", args: [{ property: "eo:cloud_cover" }, MAX_CLOUD_COVER_PERCENT] },
\* applied by the catalog
FilteredClouds == {c \in CloudLevels : c < MAX_CLOUD_COVER_PERCENT}

Feature(i, d, c) == [id |-> i, datetime |-> d, cloud |-> c]

\* response bodies: `features` absent, or a list of up to MaxFeatures features
CatalogResponses ==
    {[hasFeatures |-> FALSE, features |-> <<>>]}
    \cup {[hasFeatures |-> TRUE,
           features |-> [i \in 1..n |-> Feature(i, f[i][1], f[i][2])]] :
            n \in 0..MaxFeatures, f \in [1..MaxFeatures -> Stamps \X FilteredClouds]}

\* a comparator that puts the oldest first
compareOldestFirst(a, b) ==
    IF a.datetime = b.datetime THEN 0
    ELSE IF a.datetime < b.datetime THEN -1 ELSE 1

\* (a, b) => { if (aTime === bTime) return 0; return aTime < bTime ? 1 : -1; }
compare(a, b) ==
    IF a.datetime = b.datetime THEN 0
    ELSE IF a.datetime < b.datetime THEN 1 ELSE -1

\* Array.prototype.sort is stable: an element goes in front of the first
\* element it must precede, behind everything it compares equal to
RECURSIVE InsertSorted(_, _)
InsertSorted(s, x) ==
    IF s = <<>> THEN <<x>>
    ELSE IF compare(x, Head(s)) < 0 THEN <<x>> \o s
    ELSE <<Head(s)>> \o InsertSorted(Tail(s), x)

RECURSIVE sort(_)
sort(fs) ==
    IF fs = <<>> THEN <<>>
    ELSE InsertSorted(sort(SubSeq(fs, 1, Len(fs) - 1)), fs[Len(fs)])

NoScene == [found |-> FALSE, id |-> 0, timestamp |-> 0, cloudCover |-> 0]
Scene(best) ==
    [found |-> TRUE, id |-> best.id, timestamp |-> best.datetime, cloudCover |-> best.cloud]

\* const features = (data.features ?? []).slice().sort(...);
\* if (features.length === 0) return null; const best = features[0]; ...
PickBest(data) ==
    LET features == sort(IF data.hasFeatures THEN data.features ELSE <<>>)
    IN  IF Len(features) = 0 THEN NoScene ELSE Scene(features[1])

SceneNone == [kind |-> "none", error |-> "", scene |-> NoScene]
SceneError(msg) == [kind |-> "error", error |-> msg, scene |-> NoScene]
SceneNotFound == [kind |-> "found_false", error |-> "", scene |-> NoScene]
SceneFound(sc) == [kind |-> "found_true", error |-> "", scene |-> sc]

\* an executor that reports "no scene" as a failure
searchScenesNullIsError(sc) ==
    IF ~sc.found THEN SceneError("No suitable image found") ELSE SceneFound(sc)

\* if (!scene) return { found: false, message }; return { found: true, ... }
searchScenesResult(sc) ==
    IF ~sc.found THEN SceneNotFound ELSE SceneFound(sc)

CatalogIdle ==
    /\ cpc = "idle"
    /\ cdata = [hasFeatures |-> FALSE, features |-> <<>>]
    /\ cscene = NoScene
    /\ cresult = SceneNone

\* the catalog request is out; cdata is the body the catalog will answer with
CatalogInit ==
    /\ cpc = "fetch"
    /\ cdata \in CatalogResponses
    /\ cscene = NoScene
    /\ cresult = SceneNone

\* !res.ok (or the fetch rejects): searchSatelliteImages throws, the executor's
\* catch returns { error: msg }
CatalogFails ==
    /\ cpc = "fetch"
    /\ cpc' = "settled"
    /\ cresult' = SceneError("Sentinel Hub Catalog search failed")
    /\ UNCHANGED <<cdata, cscene>>

\* res.ok: the body is read, sorted and the first feature picked
CatalogResponds ==
    /\ cpc = "fetch"
    /\ cscene' = PickBest(cdata)
    /\ cpc' = "picked"
    /\ UNCHANGED <<cdata, cresult>>

\* the executor builds the tool's result from the scene
SearchScenesReturns ==
    /\ cpc = "picked"
    /\ cresult' = searchScenesResult(cscene)
    /\ cpc' = "settled"
    /\ UNCHANGED <<cdata, cscene>>

(***************************************************************************)
(* One invocation of a tool with schema-valid input: the provider client   *)
(* it calls and the result its executor builds (route.ts 61-205).          *)
(***************************************************************************)
ValidInput(tool) ==
    CASE tool = "lookupLocation" -> Input(Str(Iowa), <<>>, Undefined, Undefined, Undefined)
      [] tool = "searchScenes" -> Input(Undefined, BBoxOk, Str(Date1), Str(Date2), Undefined)
      [] OTHER -> Input(Undefined, BBoxOk, Undefined, Undefined, Str(Date1))

\* the provider client each executor awaits
ProviderClient(tool, input, o) ==
    CASE tool = "lookupLocation" -> lookupLocation(input.query.s, o)
      [] tool = "searchScenes" -> searchSatelliteImages(input.bbox, input.from.s, input.to.s, o)
      [] tool = "getVegetationStats" -> getVegetationStats(input.bbox, input.date.s, o)
      [] OTHER -> generateImage(input.bbox, input.date.s, o)

NotCalled == [threw |-> FALSE, msg |-> "", value |-> "pending", date |-> <<>>, requests |-> {}]
NoCall == [tool |-> "none", o |-> [auth |-> "cached", api |-> "ok", date |-> Date1]]

ClientIdle ==
    /\ kcall = NoCall
    /\ kret = NotCalled
    /\ kres = Settled("pending", NoResult, NotCalled)

ClientInit ==
    /\ kcall \in [tool : Tools, o : Outcomes]
    /\ kret = NotCalled
    /\ kres = Settled("pending", NoResult, NotCalled)

\* execute({...}) runs to its return
ToolInvoked ==
    /\ kret = NotCalled
    /\ kret' = ProviderClient(kcall.tool, ValidInput(kcall.tool), kcall.o)
    /\ kres' = execute(kcall.tool, ValidInput(kcall.tool), kcall.o)
    /\ UNCHANGED kcall

(***************************************************************************)
(* Bounding boxes: the geocoder's normalisation (geocoding.ts 13-21,       *)
(* 78-92), the chat parser (chat-parser.ts), the /api/satellite route and  *)
(* the tools' bbox arguments. Numerals are strings of characters; the      *)
(* alphabet is digits, "-", "," and "x", so Number() is modelled for the   *)
(* empty string, signed integers and text that is no number.               *)
(***************************************************************************)
NaN == [t |-> "NaN", n |-> 0, s |-> <<>>]
IsNaN(v) == v.t = "NaN"

DigitChars == <<"0", "1", "2", "3", "4", "5", "6", "7", "8", "9">>
DigitValue(c) == (CHOOSE i \in 1..10 : DigitChars[i] = c) - 1

RECURSIVE NatValue(_)
NatValue(d) ==
    IF d = <<>> THEN 0
    ELSE NatValue(SubSeq(d, 1, Len(d) - 1)) * 10 + DigitValue(d[Len(d)])

\* -?\d+ : an optional sign and at least one digit
IsNumeral(str) ==
    LET d == IF str # <<>> /\ Head(str) = "-" THEN Tail(str) ELSE str
    IN  d # <<>> /\ \A i \in 1..Len(d) : d[i] \in Digits

NumeralValue(str) ==
    IF Head(str) = "-" THEN 0 - NatValue(Tail(str)) ELSE NatValue(str)

\* Number(v): a number is itself, the empty string is 0, a numeral is its
\* value, any other string and undefined are NaN
Number(v) ==
    CASE v.t = "number" -> v
      [] v.t = "string" ->
            IF v.s = <<>> THEN Num(0)
            ELSE IF IsNumeral(v.s) THEN Num(NumeralValue(v.s))
            ELSE NaN
      [] OTHER -> NaN

RECURSIVE NatString(_)
NatString(n) ==
    IF n < 10 THEN <<DigitChars[n + 1]>>
    ELSE NatString(n \div 10) \o <<DigitChars[(n % 10) + 1]>>

\* String(n) for an integer
NumberToString(v) == IF v.n < 0 THEN <<"-">> \o NatString(0 - v.n) ELSE NatString(v.n)

\* list.join(sep)
RECURSIVE Join(_, _)
Join(list, sep) ==
    IF list = <<>> THEN <<>>
    ELSE IF Len(list) = 1 THEN list[1]
    ELSE list[1] \o <<sep>> \o Join(Tail(list), sep)

\* str.split(sep)
RECURSIVE Split(_, _)
Split(str, sep) ==
    IF \A i \in 1..Len(str) : str[i] # sep THEN <<str>>
    ELSE LET i == CHOOSE k \in 1..Len(str) :
                      str[k] = sep /\ \A j \in 1..(k - 1) : str[j] # sep
         IN  <<SubSeq(str, 1, i - 1)>> \o Split(SubSeq(str, i + 1, Len(str)), sep)

NoBBox == <<>>
NoPolygon == [type |-> "none", coordinates |-> <<>>]

\* a ring that is left open
bboxToPolygonOpen(b) ==
    [type |-> "Polygon",
     coordinates |-> << <<b[1], b[2]>>, <<b[3], b[2]>>, <<b[3], b[4]>>, <<b[1], b[4]>> >>]

\* bboxToPolygon: `coordinates` holds one ring, modelled as that ring
bboxToPolygon(b) ==
    [type |-> "Polygon",
     coordinates |-> << <<b[1], b[2]>>, <<b[3], b[2]>>, <<b[3], b[4]>>, <<b[1], b[4]>>,
                        <<b[1], b[2]>> >>]

\* nominatimBboxToAppBbox: [minLat, maxLat, minLon, maxLon] strings to
\* [minLon, minLat, maxLon, maxLat] numbers; throws on NaN
nominatimBboxToAppBbox(bb) ==
    LET n == [i \in 1..Len(bb) |-> Number(Str(bb[i]))]
    IN  IF \E i \in 1..Len(n) : IsNaN(n[i])
        THEN [threw |-> TRUE, bbox |-> NoBBox]
        ELSE [threw |-> FALSE, bbox |-> <<n[3], n[1], n[4], n[2]>>]

\* lookupLocation, lines 78-92: the bbox of the result, NoBBox for null
LocationBBox(hasBoundingbox, boundingbox) ==
    IF ~hasBoundingbox \/ Len(boundingbox) # 4 THEN NoBBox
    ELSE LET r == nominatimBboxToAppBbox(boundingbox)
         IN  IF r.threw THEN NoBBox ELSE r.bbox

\* extractBbox: the text is modelled by its comma-separated part, in which
\* BBOX_REGEX finds four numerals in a row or nothing
extractBbox(text) ==
    LET parts == Split(text, ",")
    IN  IF Len(parts) < 4 \/ \E i \in 1..4 : ~IsNumeral(parts[i]) THEN NoBBox
        ELSE LET n == [i \in 1..4 |-> Number(Str(parts[i]))]
             IN  IF \E i \in 1..4 : IsNaN(n[i]) THEN NoBBox ELSE n

\* /api/satellite, action=search and action=ndvi-image: NoBBox when the
\* route answers 400
SatelliteRouteBBox(bboxStr) ==
    IF bboxStr = <<>> THEN NoBBox
    ELSE LET parts == Split(bboxStr, ",")
             bbox == [i \in 1..Len(parts) |-> Number(Str(parts[i]))]
         IN  IF Len(bbox) # 4 \/ \E i \in 1..Len(bbox) : IsNaN(bbox[i]) THEN NoBBox
             ELSE bbox

\* the provider endpoint behind a tool or a route action
ClientOf(kind) ==
    CASE kind \in {"searchScenes", "search"} -> "catalog"
      [] kind \in {"getVegetationStats", "stats"} -> "statistics"
      [] OTHER -> "process"

S10 == <<"1", "0">>
S11 == <<"1", "1">>
S51 == <<"5", "1">>
SNeg5 == <<"-", "5">>
SX == <<"x">>
BBoxInverted == <<Num(11), Num(50), Num(10), Num(51)>>

Entries == {S10, S51, SNeg5, <<>>, SX}
Numerals == {S10, S11, SNeg5}

BIn(path, kind, json, str, strs, has) ==
    [path |-> path, kind |-> kind, json |-> json, str |-> str, strs |-> strs, has |-> has]

BBoxInputs ==
    {BIn("tool", tl, b, <<>>, <<>>, TRUE) : tl \in SentinelTools, b \in BBoxArgs \cup {BBoxInverted}}
    \cup {BIn("query", a, <<>>, Join(l, ","), <<>>, TRUE) :
            a \in {"search", "ndvi-image"}, l \in [1..4 -> Entries] \cup {<<S10, S51, S10>>}}
    \cup {BIn("query", a, <<>>, <<>>, <<>>, FALSE) : a \in {"search", "ndvi-image"}}
    \cup {BIn("chat", a, <<>>, Join(l, ","), <<>>, TRUE) :
            a \in {"search", "ndvi-image", "stats"},
            l \in [1..4 -> Numerals] \cup {<<S10, S11, SNeg5>>}}
    \cup {BIn("geocoder", "lookupLocation", <<>>, <<>>, l, TRUE) :
            l \in [1..4 -> Entries] \cup {<<S10, S51, S10>>}}
    \cup {BIn("geocoder", "lookupLocation", <<>>, <<>>, <<>>, FALSE)}

BBoxIdle ==
    /\ bpc = "idle"
    /\ bin = BIn("none", "none", <<>>, <<>>, <<>>, FALSE)
    /\ bval = NoBBox
    /\ bpoly = NoPolygon
    /\ bclient = "none"

BBoxInit ==
    /\ bpc = "input"
    /\ bin \in BBoxInputs
    /\ bval = NoBBox
    /\ bpoly = NoPolygon
    /\ bclient = "none"

\* a tool call: the schema, then the executor hands the bbox to its client
ToolCallBBox ==
    /\ bpc = "input"
    /\ bin.path = "tool"
    /\ bpc' = "done"
    /\ IF BBoxSchema(bin.json)
       THEN /\ bval' = bin.json
            /\ bpoly' = IF bin.kind = "getVegetationStats"
                        THEN bboxToPolygon(bin.json) ELSE NoPolygon
            /\ bclient' = ClientOf(bin.kind)
       ELSE UNCHANGED <<bval, bpoly, bclient>>
    /\ UNCHANGED bin

\* GET /api/satellite?action=...&bbox=...
QueryBBox ==
    /\ bpc = "input"
    /\ bin.path = "query"
    /\ bpc' = "done"
    /\ LET bbox == IF bin.has THEN SatelliteRouteBBox(bin.str) ELSE NoBBox
       IN  /\ bval' = bbox
           /\ bclient' = IF bbox = NoBBox THEN "none" ELSE ClientOf(bin.kind)
    /\ UNCHANGED <<bin, bpoly>>

\* ChatArea: parseUserIntent, buildSearchParams, fetch(/api/satellite?...)
ChatBBox ==
    /\ bpc = "input"
    /\ bin.path = "chat"
    /\ bpc' = "done"
    /\ LET bbox == extractBbox(bin.str)
       IN  IF bbox = NoBBox THEN UNCHANGED <<bval, bpoly, bclient>>
           ELSE IF bin.kind = "stats"
           THEN /\ bval' = bbox
                /\ bpoly' = bboxToPolygon(bbox)
                /\ bclient' = ClientOf(bin.kind)
           ELSE LET param == Join([i \in 1..4 |-> NumberToString(bbox[i])], ",")
                    routed == SatelliteRouteBBox(param)
                IN  /\ bval' = routed
                    /\ bclient' = IF routed = NoBBox THEN "none" ELSE ClientOf(bin.kind)
                    /\ UNCHANGED bpoly
    /\ UNCHANGED bin

\* lookupLocation reads the first match of Nominatim's answer
GeocoderBBox ==
    /\ bpc = "input"
    /\ bin.path = "geocoder"
    /\ bpc' = "done"
    /\ bval' = LocationBBox(bin.has, bin.strs)
    /\ UNCHANGED <<bin, bpoly, bclient>>

(***************************************************************************)
(* Date ranges: the three callers of searchSatelliteImages (the            *)
(* searchScenes tool, /api/satellite?action=search, and the chat parser's  *)
(* search intent by way of that route).                                    *)
(***************************************************************************)
Date3 == <<"2", "0", "2", "4", "-", "0", "1", "-", "2", "5">>

\* the characters of the model in the order of their UTF-16 code units
CodeOrder ==
    <<",", "-", "0", "1", "2", "3", "4", "5", "6", "7", "8", "9", ":", "T", "Z",
      "n", "o", "s", "x">>
CharCode(c) == CHOOSE i \in 1..Len(CodeOrder) : CodeOrder[i] = c

\* a < b on strings
RECURSIVE StringLess(_, _)
StringLess(a, b) ==
    IF b = <<>> THEN FALSE
    ELSE IF a = <<>> THEN TRUE
    ELSE IF Head(a) = Head(b) THEN StringLess(Tail(a), Tail(b))
    ELSE CharCode(Head(a)) < CharCode(Head(b))

NoReq == [url |-> "none", from |-> <<>>, to |-> <<>>, attempt |-> 0]
NoDates == [has |-> FALSE, from |-> <<>>, to |-> <<>>]
DatePair(f, t) == [has |-> TRUE, from |-> f, to |-> t]

\* parseUserIntent, search branch, for a text with a search word and a bbox:
\* dates are the matches of DATE_REGEX in the text, in order
searchIntentDates(dates) ==
    IF Len(dates) >= 2
    THEN IF StringLess(dates[1], dates[2])
         THEN DatePair(dates[1], dates[2])
         ELSE DatePair(dates[2], dates[1])
    ELSE NoDates

\* the request searchSatelliteImages sends to the catalog when the token is cached
CatalogRequest(from, to) ==
    LET r == searchSatelliteImages(BBoxOk, from, to,
                                   [auth |-> "cached", api |-> "ok", date |-> Date1])
    IN  CHOOSE q \in r.requests : q.url = "catalog"

\* /api/satellite?action=search with a valid bbox: `if (!bboxStr || !from || !to)`
\* answers 400; a parameter is absent (Undefined) or a string
SatelliteRouteSearch(from, to) ==
    IF from.t # "string" \/ to.t # "string" \/ from.s = <<>> \/ to.s = <<>> THEN NoReq
    ELSE CatalogRequest(from.s, to.s)

RangeDates == {Date1, Date2, Date3}

RIn(path, from, to, dates) == [path |-> path, from |-> from, to |-> to, dates |-> dates]

RangeInputs ==
    {RIn("tool", f, t, <<>>) :
        f \in {Str(d) : d \in RangeDates} \cup {Str(Banana), Num(5)},
        t \in {Str(d) : d \in RangeDates} \cup {Str(Banana), Num(5)}}
    \cup {RIn("query", f, t, <<>>) :
            f \in {Str(d) : d \in RangeDates} \cup {Str(<<>>), Undefined},
            t \in {Str(d) : d \in RangeDates} \cup {Str(<<>>), Undefined}}
    \cup {RIn("chat", Undefined, Undefined, ds) : ds \in SeqsUpTo(RangeDates, 3)}

RangeIdle ==
    /\ rpc = "idle"
    /\ rin = RIn("none", Undefined, Undefined, <<>>)
    /\ rreq = NoReq

RangeInit ==
    /\ rpc = "input"
    /\ rin \in RangeInputs
    /\ rreq = NoReq

\* tools.searchScenes: dateRange is { from: z.string(), to: z.string() }
ToolCallRange ==
    /\ rpc = "input"
    /\ rin.path = "tool"
    /\ rpc' = "done"
    /\ rreq' = IF StringSchema(rin.from) /\ StringSchema(rin.to)
               THEN CatalogRequest(rin.from.s, rin.to.s)
               ELSE NoReq
    /\ UNCHANGED rin

\* GET /api/satellite?action=search&bbox=...&from=...&to=...
QueryRange ==
    /\ rpc = "input"
    /\ rin.path = "query"
    /\ rpc' = "done"
    /\ rreq' = SatelliteRouteSearch(rin.from, rin.to)
    /\ UNCHANGED rin

\* ChatArea: parseUserIntent gives a search intent, buildSearchParams puts
\* intent.from and intent.to into the query of /api/satellite
ChatRange ==
    /\ rpc = "input"
    /\ rin.path = "chat"
    /\ rpc' = "done"
    /\ LET intent == searchIntentDates(rin.dates)
       IN  rreq' = IF intent.has
                   THEN SatelliteRouteSearch(Str(intent.from), Str(intent.to))
                   ELSE NoReq
    /\ UNCHANGED rin

(***************************************************************************)
(* NDVI statistics: extractNDVIStatsForLLM and the getVegetationStats      *)
(* tool's use of it.                                                       *)
(***************************************************************************)
NoStats == "none"                         \* undefined / null
StatsValues == {"statsA", "statsB"}      \* two distinguishable stats objects
BandKeys == {"B0", "B1", "B2"}

Band(k, st) == [key |-> k, stats |-> st]

\* the bands object as its entries in Object.keys order; keys are distinct
BandsObjects ==
    {bs \in SeqsUpTo({Band(k, st) : k \in BandKeys, st \in StatsValues \cup {NoStats}}, 2) :
        \A i, j \in 1..Len(bs) : bs[i].key = bs[j].key => i = j}

\* how deep response.data?.[0]?.outputs?.ndvi?.bands is defined
StatsLevels == {"no_interval", "no_outputs", "no_ndvi", "no_bands", "bands"}

StatsResponse(level, bands) == [level |-> level, bands |-> bands]

StatsResponses ==
    {StatsResponse(l, <<>>) : l \in StatsLevels \ {"bands"}}
    \cup {StatsResponse("bands", bs) : bs \in BandsObjects}

HasKey(bands, k) == \E i \in 1..Len(bands) : bands[i].key = k

\* bands[k]?.stats
StatsAt(bands, k) ==
    IF HasKey(bands, k)
    THEN bands[CHOOSE i \in 1..Len(bands) : bands[i].key = k].stats
    ELSE NoStats

\* Object.keys(bands)[0], undefined for an object without keys
FirstKey(bands) == IF Len(bands) = 0 THEN "undefined" ELSE bands[1].key

\* an extraction that looks under B0 only
extractNDVIStatsOnlyB0(response) ==
    IF response.level # "bands" THEN NoStats
    ELSE StatsAt(response.bands, "B0")

\* const stats = bands.B0?.stats ?? bands[Object.keys(bands)[0]]?.stats;
\* return stats ?? null;
extractNDVIStatsForLLM(response) ==
    IF response.level # "bands" THEN NoStats
    ELSE LET b0 == StatsAt(response.bands, "B0")
         IN  IF b0 # NoStats THEN b0
             ELSE StatsAt(response.bands, FirstKey(response.bands))

NoStatsMessage == "No NDVI statistics returned for this area/date."

\* tools.getVegetationStats.execute after the provider call returned
StatsToolResult(stats) ==
    IF stats = NoStats
    THEN [result |-> ErrorValue(NoStatsMessage), stats |-> NoStats]
    ELSE [result |-> Output(<<>>), stats |-> stats]

NoStatsResult == [result |-> NoResult, stats |-> NoStats]

StatsIdle ==
    /\ spc = "idle"
    /\ sresp = StatsResponse("no_interval", <<>>)
    /\ sstats = "unset"
    /\ sresult = NoStatsResult

StatsInit ==
    /\ spc = "response"
    /\ sresp \in StatsResponses
    /\ sstats = "unset"
    /\ sresult = NoStatsResult

\* const stats = extractNDVIStatsForLLM(response);
ExtractStats ==
    /\ spc = "response"
    /\ spc' = "extracted"
    /\ sstats' = extractNDVIStatsForLLM(sresp)
    /\ UNCHANGED <<sresp, sresult>>

\* if (!stats) return { error }; return { mean, min, max, ... }
StatsToolReturns ==
    /\ spc = "extracted"
    /\ spc' = "returned"
    /\ sresult' = StatsToolResult(sstats)
    /\ UNCHANGED <<sresp, sstats>>

(***************************************************************************)
(* Cancellation: the caller of POST /api/chat disconnects while the tools  *)
(* of a step run.  The executors in flight are the callers of the          *)
(* credential cache; each is inside its provider client's getAccessToken.  *)
(***************************************************************************)

\* executors that are stopped when the caller goes away
ExecutorsAbortedOnCancel(t) ==
    [p \in Callers |-> IF t[p] \in {"fetch", "json"} THEN "thrown" ELSE t[p]]

\* streamText is given no abortSignal, execute takes none and the provider
\* clients' fetch calls carry no signal: a running executor goes on as it was
ExecutorsAfterCancel(t) == t

CancelIdle ==
    /\ xconn = "idle"
    /\ xevents = {}
    /\ xcache = NoToken

CancelInit ==
    /\ xconn = "open"
    /\ xevents = {}
    /\ xcache = NoToken

\* result.toUIMessageStreamResponse(): the result of a settled tool call is
\* written to the response stream, which reaches the caller while it is connected
EmitToolResult(p) ==
    /\ xconn = "open"
    /\ tpc[p] \in {"returned", "thrown"}
    /\ p \notin xevents
    /\ xevents' = xevents \cup {p}
    /\ UNCHANGED <<xconn, xcache>>

\* the caller disconnects: the response stream is cancelled
Cancel ==
    /\ xconn = "open"
    /\ xconn' = "closed"
    /\ xcache' = cachedToken
    /\ tpc' = ExecutorsAfterCancel(tpc)
    /\ UNCHANGED <<now, env, cachedToken, tnow, tres, tret, exchanges, xevents>>

(***************************************************************************)
(* GET /api/satellite (app/api/satellite/route.ts): validation, dispatch   *)
(* to the service functions, and the outer catch.                          *)
(***************************************************************************)

\* what JSON.parse makes of the geometry parameter: it throws, or gives a value
\* with or without type "Polygon" and with or without an array `coordinates`
GeometryTexts == {"not_json", "null", "point", "polygon_without_ring", "polygon"}

JSONParse(text) ==
    CASE text = "not_json" -> [threw |-> TRUE, type |-> "none", coordinatesIsArray |-> FALSE]
      [] text = "null" -> [threw |-> FALSE, type |-> "none", coordinatesIsArray |-> FALSE]
      [] text = "point" -> [threw |-> FALSE, type |-> "Point", coordinatesIsArray |-> TRUE]
      [] text = "polygon_without_ring" ->
            [threw |-> FALSE, type |-> "Polygon", coordinatesIsArray |-> FALSE]
      [] OTHER -> [threw |-> FALSE, type |-> "Polygon", coordinatesIsArray |-> TRUE]

\* searchParams.get(name): Undefined stands for null (the parameter is absent)
Param(v) == v.t = "string" /\ v.s # <<>>

QueryBBoxes ==
    {Undefined, Str(<<>>),
     Str(Join(<<S10, S51, S11>>, ",")),
     Str(Join(<<S10, S51, S11, S51>>, ",")),
     Str(Join(<<SNeg5, S10, S10, S51>>, ",")),
     Str(Join(<<S10, <<>>, S11, S51>>, ",")),
     Str(Join(<<S10, SX, S11, S51>>, ",")),
     Str(Join(<<S10, S51, S11, S51, S10>>, ","))}

QueryDates == {Undefined, Str(Date1)}

Query(action, bb, p1, p2, geometry) ==
    [action |-> action, bbox |-> bb, p1 |-> p1, p2 |-> p2, geometry |-> geometry]

\* the requests: p1 is `from` (search) or `date`, p2 is `to`
Queries ==
    {Query("search", bb, f, t, "absent") : bb \in QueryBBoxes, f \in QueryDates, t \in QueryDates}
    \cup {Query("ndvi-image", bb, d, Undefined, "absent") : bb \in QueryBBoxes, d \in QueryDates}
    \cup {Query("stats", Undefined, d, Undefined, g) :
            d \in QueryDates, g \in GeometryTexts \cup {"absent"}}
    \cup {Query(a, bb, Str(Date1), Str(Date2), "absent") :
            a \in {"absent", "tiles"}, bb \in {Undefined, Str(Join(<<S10, S51, S11, S51>>, ","))}}

NoAnswer == [status |-> 0, body |-> "none", error |-> ""]
Answer(status, body, error) == [status |-> status, body |-> body, error |-> error]
BadRequest(error) == Answer(400, "error", error)

\* the service function an action calls
ServiceOf(action) ==
    CASE action = "search" -> "searchSatelliteImages"
      [] action = "ndvi-image" -> "generateNDVIImage"
      [] OTHER -> "getVegetationStats"

\* the checks the route makes before it calls a service: the response it
\* returns early, NoAnswer when it goes on to the service call
Validate(q) ==
    CASE q.action = "search" ->
            IF ~Param(q.bbox) \/ ~Param(q.p1) \/ ~Param(q.p2)
            THEN BadRequest("Missing bbox, from, or to for search")
            ELSE IF SatelliteRouteBBox(q.bbox.s) = NoBBox
            THEN BadRequest("Invalid bbox (minLon,minLat,maxLon,maxLat)")
            ELSE NoAnswer
      [] q.action = "ndvi-image" ->
            IF ~Param(q.bbox) \/ ~Param(q.p1)
            THEN BadRequest("Missing bbox or date for ndvi-image")
            ELSE IF SatelliteRouteBBox(q.bbox.s) = NoBBox
            THEN BadRequest("Invalid bbox")
            ELSE NoAnswer
      [] q.action = "stats" ->
            IF q.geometry = "absent" \/ ~Param(q.p1)
            THEN BadRequest("Missing geometry (JSON) or date for stats")
            ELSE IF JSONParse(q.geometry).threw
            THEN BadRequest("Invalid geometry JSON")
            ELSE IF JSONParse(q.geometry).type # "Polygon"
                    \/ ~JSONParse(q.geometry).coordinatesIsArray
            THEN BadRequest("geometry must be a GeoJSON Polygon")
            ELSE NoAnswer
      [] OTHER -> Answer(200, "usage", "")

\* the messages a service function may throw with
ServiceErrors ==
    {"Missing SENTINEL_CLIENT_ID or SENTINEL_CLIENT_SECRET in environment",
     "Sentinel Hub auth failed", "fetch failed"}

RouteIdle ==
    /\ qpc = "idle"
    /\ qreq = Query("absent", Undefined, Undefined, Undefined, "absent")
    /\ qcalled = "none"
    /\ qresp = NoAnswer

RouteInit ==
    /\ qpc = "request"
    /\ qreq \in Queries
    /\ qcalled = "none"
    /\ qresp = NoAnswer

\* GET up to the first await: an early response, or the call of the service
RouteHandles ==
    /\ qpc = "request"
    /\ LET early == Validate(qreq)
       IN  IF early # NoAnswer
           THEN /\ qpc' = "answered"
                /\ qresp' = early
                /\ UNCHANGED qcalled
           ELSE /\ qpc' = "called"
                /\ qcalled' = ServiceOf(qreq.action)
                /\ UNCHANGED qresp
    /\ UNCHANGED qreq

\* the service call resolves: the route answers with its result
ServiceResolves ==
    /\ qpc = "called"
    /\ qpc' = "answered"
    /\ qresp' = Answer(200, IF qreq.action = "ndvi-image" THEN "image/png" ELSE "json", "")
    /\ UNCHANGED <<qreq, qcalled>>

\* the service call rejects: catch (err) { ... { error: message }, { status: 500 } }
ServiceThrows ==
    /\ qpc = "called"
    /\ qpc' = "answered"
    /\ \E msg \in ServiceErrors : qresp' = Answer(500, "error", msg)
    /\ UNCHANGED <<qreq, qcalled>>

(***************************************************************************)
(* The tool status indicator (components/ChatArea, AI SDK v6 parts):       *)
(* TOOL_LABELS and getActiveToolStatus.                                    *)
(***************************************************************************)
MaxMessages == 3
MaxParts == 2

\* the tools that have an entry in TOOL_LABELS
TOOL_LABELS == {"lookupLocation", "searchScenes", "getVegetationStats", "generateNDVI"}

ToolPart(tool, state) == [type |-> "tool-" \o tool, toolName |-> tool, state |-> state]

\* tool parts as the stream leaves them in a message
ToolParts ==
    {ToolPart("lookupLocation", "input-available"),
     ToolPart("lookupLocation", "output-available"),
     ToolPart("generateTrueColor", "input-available")}

Message(role, parts) == [role |-> role, parts |-> parts]

UIMessages ==
    {Message("user", <<>>)}
    \cup {Message("assistant", ps) : ps \in SeqsUpTo(ToolParts, MaxParts)}

\* p.state is none of output-available, output-error, output-denied
IsPending(part) == part.state \notin {"output-available", "output-error", "output-denied"}

\* parts.find(pending): the index of the first pending tool part, 0 for none
FindPending(parts) ==
    IF \E i \in 1..Len(parts) : IsPending(parts[i])
    THEN CHOOSE i \in 1..Len(parts) :
            IsPending(parts[i]) /\ \A j \in 1..(i - 1) : ~IsPending(parts[j])
    ELSE 0

\* the loop `for (let i = messages.length - 1; i >= 0; i--)` from index i down
RECURSIVE StatusFrom(_, _)
StatusFrom(messages, i) ==
    IF i = 0 THEN "null"
    ELSE IF messages[i].role # "assistant" THEN StatusFrom(messages, i - 1)
    ELSE LET k == FindPending(messages[i].parts)
             toolName == IF k = 0 THEN "" ELSE messages[i].parts[k].toolName
         IN  IF toolName # "" /\ toolName \in TOOL_LABELS
             THEN toolName
             ELSE StatusFrom(messages, i - 1)

getActiveToolStatus(messages) == StatusFrom(messages, Len(messages))

StatusIdle ==
    /\ mpc = "idle"
    /\ mmsgs = <<>>
    /\ mstatus = "null"

StatusInit ==
    /\ mpc = "messages"
    /\ mmsgs \in SeqsUpTo(UIMessages, MaxMessages)
    /\ mstatus = "null"

\* const activeToolStatus = getActiveToolStatus(messages)
RenderStatus ==
    /\ mpc = "messages"
    /\ mpc' = "rendered"
    /\ mstatus' = getActiveToolStatus(mmsgs)
    /\ UNCHANGED mmsgs

(***************************************************************************)
(* The chat UI: ChatArea with useChat and the map selector                 *)
(* (components/ChatArea, MapSelector.tsx), and the rule-based ChatArea     *)
(* (ChatArea.tsx) that calls /api/satellite itself.                        *)
(***************************************************************************)
MaxSubmits == 2

Variants == {"agent", "rule"}

\* str.trim() for texts whose only white space is " "
RECURSIVE TrimStart(_)
TrimStart(str) ==
    IF str # <<>> /\ Head(str) = " " THEN TrimStart(Tail(str)) ELSE str

RECURSIVE TrimEnd(_)
TrimEnd(str) ==
    IF str # <<>> /\ str[Len(str)] = " " THEN TrimEnd(SubSeq(str, 1, Len(str) - 1)) ELSE str

Trim(str) == TrimEnd(TrimStart(str))

\* what the user may type
TypedTexts == {<<>>, <<" ">>, <<"h", "i">>, <<" ", "h", "i", " ">>}

\* shapes the user may draw: [west, south, east, north]
Shapes == {<<10, 50, 11, 51>>, <<0 - 5, 10, 10, 11>>}

MinOf(S) == CHOOSE x \in S : \A y \in S : x <= y
MaxOf(S) == CHOOSE x \in S : \A y \in S : x >= y

\* fg.getBounds(): [getWest(), getSouth(), getEast(), getNorth()]
BoundsOf(layers) ==
    <<Num(MinOf({l[1] : l \in layers})), Num(MinOf({l[2] : l \in layers})),
      Num(MaxOf({l[3] : l \in layers})), Num(MaxOf({l[4] : l \in layers}))>>

\* bbox.join(",")
BBoxText(b) == Join([i \in 1..4 |-> NumberToString(b[i])], ",")

\* status === "streaming" || status === "submitted"; the rule-based component's
\* isLoading state is "submitted" while true
IsLoading == ustatus \in {"submitted", "streaming"}

\* a message of the transcript: its role and the types of its content items
UserMessage(text) == [role |-> "user", content |-> IF text = <<>> THEN <<>> ELSE <<"text">>]
AssistantMessage(content) == [role |-> "assistant", content |-> content]

\* the intents parseUserIntent may return, "null" for null
Intents == {"null", "search", "ndvi-image", "stats"}

\* how a fetch of /api/satellite may end: it rejects, or resolves with a
\* status and a body that parses or not and that holds some of the fields
FetchOutcomes ==
    [net : {"throws", "status_error", "ok"}, json : {"ok", "fails"},
     data : {"empty", "ndviStats", "raw", "scene", "message"}]

\* handleSubmit, lines 81-120: the content pushed for an intent and an outcome
AssistantContent(intent, o) ==
    IF o.net = "throws" THEN <<"text">>
    ELSE IF intent = "ndvi-image"
    THEN IF o.net = "status_error" THEN <<"text">> ELSE <<"ndvi-image", "text">>
    ELSE LET data == IF o.json = "fails" THEN "empty" ELSE o.data
         IN  IF o.net = "status_error" THEN <<"text">>
             ELSE IF intent = "stats" /\ data \in {"ndviStats", "raw"}
             THEN IF data = "ndviStats" THEN <<"stats", "text">> ELSE <<"stats">>
             ELSE IF intent = "search" /\ data \in {"scene", "message"}
             THEN <<"stats", "text">>
             ELSE <<"stats">>

\* assistantContent.length ? assistantContent : [{ type: "text", text: "No result." }]
OrNoResult(content) == IF content = <<>> THEN <<"text">> ELSE content

UIIdle ==
    /\ uvariant = "none"
    /\ uinput = <<>>
    /\ umap = FALSE
    /\ ulayers = {}
    /\ ustatus = "ready"
    /\ umessages = <<>>
    /\ uflight = 0
    /\ uintent = "none"
    /\ ucallback = "none"

UIInit ==
    /\ uvariant \in Variants
    /\ uinput = <<>>
    /\ umap = FALSE
    /\ ulayers = {}
    /\ ustatus = "ready"
    /\ umessages = <<>>
    /\ uflight = 0
    /\ uintent = "none"
    /\ ucallback = "none"

\* onChange={(e) => setInput(e.target.value)}; the textarea is disabled while
\* loading and not rendered in map-selection mode
TypeText ==
    /\ uvariant \in Variants
    /\ ~umap
    /\ ~IsLoading
    /\ \E t \in TypedTexts : uinput' = t
    /\ ucallback' = "onChange"
    /\ UNCHANGED <<uvariant, umap, ulayers, ustatus, umessages, uflight, uintent>>

\* the map button: onClick={() => setIsMapSelectionMode(true)} disabled={isLoading}
OpenMap ==
    /\ uvariant = "agent"
    /\ ~umap
    /\ ~IsLoading
    /\ umap' = TRUE
    /\ ucallback' = "openMap"
    /\ UNCHANGED <<uvariant, uinput, ulayers, ustatus, umessages, uflight, uintent>>

\* draw:created adds the layer to the feature group
DrawShape ==
    /\ umap
    /\ \E s \in Shapes \ ulayers : ulayers' = ulayers \cup {s}
    /\ ucallback' = "onDrawCreated"
    /\ UNCHANGED <<uvariant, uinput, umap, ustatus, umessages, uflight, uintent>>

\* the draw control's remove tool
RemoveShape ==
    /\ umap
    /\ \E s \in ulayers : ulayers' = ulayers \ {s}
    /\ ucallback' = "layerremove"
    /\ UNCHANGED <<uvariant, uinput, umap, ustatus, umessages, uflight, uintent>>

\* a MapSelector whose confirm handler does not look at the layers
handleConfirmUnguarded ==
    /\ umap
    /\ uinput' = IF ulayers = {} THEN <<>> ELSE BBoxText(BoundsOf(ulayers))
    /\ umap' = FALSE
    /\ ulayers' = {}
    /\ ucallback' = "onConfirm"
    /\ UNCHANGED <<uvariant, ustatus, umessages, uflight, uintent>>

\* MapSelector.handleConfirm, then ChatArea.handleMapConfirm through onConfirm
handleConfirm ==
    /\ umap
    /\ IF ulayers = {}
       THEN /\ ucallback' = "handleConfirm"
            /\ UNCHANGED <<uinput, umap, ulayers>>
       ELSE \* the MapSelector is unmounted with its feature group
            /\ uinput' = BBoxText(BoundsOf(ulayers))
            /\ umap' = FALSE
            /\ ulayers' = {}
            /\ ucallback' = "onConfirm"
    /\ UNCHANGED <<uvariant, ustatus, umessages, uflight, uintent>>

\* the Cancel button: onClick={onCancel}, ChatArea.handleMapCancel
handleMapCancel ==
    /\ umap
    /\ umap' = FALSE
    /\ ulayers' = {}
    /\ ucallback' = "onCancel"
    /\ UNCHANGED <<uvariant, uinput, ustatus, umessages, uflight, uintent>>

\* a submit handler without the `if (!text || isLoading) return`
handleSubmitUnguarded ==
    /\ uvariant \in Variants
    /\ ~umap
    /\ Len(umessages) < 2 * MaxSubmits
    /\ uinput' = <<>>
    /\ umessages' = Append(umessages, UserMessage(Trim(uinput)))
    /\ ustatus' = "submitted"
    /\ uflight' = uflight + 1
    /\ uintent' = IF uvariant = "rule" THEN "search" ELSE "none"
    /\ ucallback' = "handleSubmit"
    /\ UNCHANGED <<uvariant, umap, ulayers>>

\* the form's onSubmit: handleSubmit of either component, up to its first await
handleSubmit ==
    /\ uvariant \in Variants
    /\ ~umap
    /\ ucallback' = "handleSubmit"
    /\ LET text == Trim(uinput)
       IN  IF text = <<>> \/ IsLoading
           THEN UNCHANGED <<uinput, umessages, ustatus, uflight, uintent>>
           ELSE /\ Len(umessages) < 2 * MaxSubmits
                /\ uinput' = <<>>
                /\ IF uvariant = "agent"
                   THEN \* sendMessage({ text }) / append({ role: "user", content: text })
                        /\ umessages' = Append(umessages, UserMessage(text))
                        /\ ustatus' = "submitted"
                        /\ uflight' = uflight + 1
                        /\ UNCHANGED uintent
                   ELSE \E intent \in Intents :
                          IF intent = "null"
                          THEN \* no request: the hint is appended in the same run
                               /\ umessages' = Append(Append(umessages, UserMessage(text)),
                                                      AssistantMessage(OrNoResult(<<"text">>)))
                               /\ UNCHANGED <<ustatus, uflight, uintent>>
                          ELSE /\ umessages' = Append(umessages, UserMessage(text))
                               /\ ustatus' = "submitted"
                               /\ uflight' = uflight + 1
                               /\ uintent' = intent
    /\ UNCHANGED <<uvariant, umap, ulayers>>

\* a rule-based handler without try/catch: a rejected fetch ends the handler
FetchSettlesUncaught ==
    /\ uvariant = "rule"
    /\ uflight > 0
    /\ \E o \in FetchOutcomes :
          IF o.net = "throws"
          THEN UNCHANGED <<umessages, ustatus>>
          ELSE /\ umessages' = Append(umessages,
                                      AssistantMessage(OrNoResult(AssistantContent(uintent, o))))
               /\ ustatus' = "ready"
    /\ uflight' = uflight - 1
    /\ uintent' = "none"
    /\ ucallback' = "fetchSettled"
    /\ UNCHANGED <<uvariant, uinput, umap, ulayers>>

\* rule-based handleSubmit from `await fetch(url)` to its end
FetchSettles ==
    /\ uvariant = "rule"
    /\ uflight > 0
    /\ \E o \in FetchOutcomes :
          umessages' = Append(umessages,
                              AssistantMessage(OrNoResult(AssistantContent(uintent, o))))
    /\ ustatus' = "ready"
    /\ uflight' = uflight - 1
    /\ uintent' = "none"
    /\ ucallback' = "fetchSettled"
    /\ UNCHANGED <<uvariant, uinput, umap, ulayers>>

\* useChat: the response of /api/chat starts to stream
ResponseStarts ==
    /\ uvariant = "agent"
    /\ ustatus = "submitted"
    /\ ustatus' = "streaming"
    /\ umessages' = Append(umessages, AssistantMessage(<<"text">>))
    /\ ucallback' = "useChat"
    /\ UNCHANGED <<uvariant, uinput, umap, ulayers, uflight, uintent>>

\* useChat: the stream ends
ResponseEnds ==
    /\ uvariant = "agent"
    /\ ustatus = "streaming"
    /\ ustatus' = "ready"
    /\ uflight' = uflight - 1
    /\ ucallback' = "useChat"
    /\ UNCHANGED <<uvariant, uinput, umap, ulayers, umessages, uintent>>

\* useChat: the request or the stream fails
ResponseFails ==
    /\ uvariant = "agent"
    /\ ustatus \in {"submitted", "streaming"}
    /\ ustatus' = "error"
    /\ uflight' = uflight - 1
    /\ ucallback' = "useChat"
    /\ UNCHANGED <<uvariant, uinput, umap, ulayers, umessages, uintent>>

(***************************************************************************)
(* Specifications.                                                         *)
(***************************************************************************)
Init == ChatInit /\ TokenInit /\ env = TRUE /\ GeoInit /\ CatalogIdle /\ ClientIdle /\ BBoxIdle /\ RangeIdle /\ StatsIdle /\ CancelIdle /\ RouteIdle /\ StatusIdle /\ UIIdle

Next ==
    \/ ModelCallsTools /\ UNCHANGED <<tokenVars, geoVars, catVars, clientVars, bboxVars, rangeVars, statsVars, cancelVars, routeVars, statusVars, uiVars>>
    \/ ModelStops /\ UNCHANGED <<tokenVars, geoVars, catVars, clientVars, bboxVars, rangeVars, statsVars, cancelVars, routeVars, statusVars, uiVars>>
    \/ ModelFails /\ UNCHANGED <<tokenVars, geoVars, catVars, clientVars, bboxVars, rangeVars, statsVars, cancelVars, routeVars, statusVars, uiVars>>
    \/ ToolReturns /\ UNCHANGED <<tokenVars, geoVars, catVars, clientVars, bboxVars, rangeVars, statsVars, cancelVars, routeVars, statusVars, uiVars>>
    \/ StepFinish /\ UNCHANGED <<tokenVars, geoVars, catVars, clientVars, bboxVars, rangeVars, statsVars, cancelVars, routeVars, statusVars, uiVars>>

Spec == Init /\ [][Next]_vars

InitToken == ChatInit /\ TokenInit /\ GeoInit /\ CatalogIdle /\ ClientIdle /\ BBoxIdle /\ RangeIdle /\ StatsIdle /\ CancelIdle /\ RouteIdle /\ StatusIdle /\ UIIdle

NextToken ==
    \/ \E p \in Callers : Call(p) /\ UNCHANGED <<chatVars, geoVars, catVars, clientVars, bboxVars, rangeVars, statsVars, cancelVars, routeVars, statusVars, uiVars>>
    \/ \E p \in Callers : ExchangeFails(p) /\ UNCHANGED <<chatVars, geoVars, catVars, clientVars, bboxVars, rangeVars, statsVars, cancelVars, routeVars, statusVars, uiVars>>
    \/ \E p \in Callers : ExchangeResponds(p) /\ UNCHANGED <<chatVars, geoVars, catVars, clientVars, bboxVars, rangeVars, statsVars, cancelVars, routeVars, statusVars, uiVars>>
    \/ \E p \in Callers : BodyFails(p) /\ UNCHANGED <<chatVars, geoVars, catVars, clientVars, bboxVars, rangeVars, statsVars, cancelVars, routeVars, statusVars, uiVars>>
    \/ \E p \in Callers : BodyArrives(p) /\ UNCHANGED <<chatVars, geoVars, catVars, clientVars, bboxVars, rangeVars, statsVars, cancelVars, routeVars, statusVars, uiVars>>
    \/ Tick /\ UNCHANGED <<chatVars, geoVars, catVars, clientVars, bboxVars, rangeVars, statsVars, cancelVars, routeVars, statusVars, uiVars>>

SpecToken == InitToken /\ [][NextToken]_vars

InitGeo == ChatInit /\ TokenInit /\ env = TRUE /\ GeoInit /\ CatalogIdle /\ ClientIdle /\ BBoxIdle /\ RangeIdle /\ StatsIdle /\ CancelIdle /\ RouteIdle /\ StatusIdle /\ UIIdle

NextGeo ==
    \/ \E p \in Lookups : LookupCalled(p) /\ UNCHANGED <<chatVars, tokenVars, catVars, clientVars, bboxVars, rangeVars, statsVars, cancelVars, routeVars, statusVars, uiVars>>
    \/ \E p \in Lookups : TimerFires(p) /\ UNCHANGED <<chatVars, tokenVars, catVars, clientVars, bboxVars, rangeVars, statsVars, cancelVars, routeVars, statusVars, uiVars>>
    \/ \E p \in Lookups : NominatimResponds(p) /\ UNCHANGED <<chatVars, tokenVars, catVars, clientVars, bboxVars, rangeVars, statsVars, cancelVars, routeVars, statusVars, uiVars>>
    \/ GeoTick /\ UNCHANGED <<chatVars, tokenVars, catVars, clientVars, bboxVars, rangeVars, statsVars, cancelVars, routeVars, statusVars, uiVars>>

SpecGeo == InitGeo /\ [][NextGeo]_vars

InitCatalog == ChatInit /\ TokenInit /\ env = TRUE /\ GeoInit /\ CatalogInit /\ ClientIdle /\ BBoxIdle /\ RangeIdle /\ StatsIdle /\ CancelIdle /\ RouteIdle /\ StatusIdle /\ UIIdle

NextCatalog ==
    \/ CatalogFails /\ UNCHANGED <<chatVars, tokenVars, geoVars, clientVars, bboxVars, rangeVars, statsVars, cancelVars, routeVars, statusVars, uiVars>>
    \/ CatalogResponds /\ UNCHANGED <<chatVars, tokenVars, geoVars, clientVars, bboxVars, rangeVars, statsVars, cancelVars, routeVars, statusVars, uiVars>>
    \/ SearchScenesReturns /\ UNCHANGED <<chatVars, tokenVars, geoVars, clientVars, bboxVars, rangeVars, statsVars, cancelVars, routeVars, statusVars, uiVars>>

SpecCatalog == InitCatalog /\ [][NextCatalog]_vars

InitClient == ChatInit /\ TokenInit /\ env = TRUE /\ GeoInit /\ CatalogIdle /\ ClientInit /\ BBoxIdle /\ RangeIdle /\ StatsIdle /\ CancelIdle /\ RouteIdle /\ StatusIdle /\ UIIdle

NextClient == ToolInvoked /\ UNCHANGED <<chatVars, tokenVars, geoVars, catVars, bboxVars, rangeVars, statsVars, cancelVars, routeVars, statusVars, uiVars>>

SpecClient == InitClient /\ [][NextClient]_vars

InitBBox ==
    ChatInit /\ TokenInit /\ env = TRUE /\ GeoInit /\ CatalogIdle /\ ClientIdle /\ BBoxInit
    /\ RangeIdle /\ StatsIdle /\ CancelIdle /\ RouteIdle /\ StatusIdle /\ UIIdle

NextBBox ==
    \/ ToolCallBBox /\ UNCHANGED <<chatVars, tokenVars, geoVars, catVars, clientVars, rangeVars, statsVars, cancelVars, routeVars, statusVars, uiVars>>
    \/ QueryBBox /\ UNCHANGED <<chatVars, tokenVars, geoVars, catVars, clientVars, rangeVars, statsVars, cancelVars, routeVars, statusVars, uiVars>>
    \/ ChatBBox /\ UNCHANGED <<chatVars, tokenVars, geoVars, catVars, clientVars, rangeVars, statsVars, cancelVars, routeVars, statusVars, uiVars>>
    \/ GeocoderBBox /\ UNCHANGED <<chatVars, tokenVars, geoVars, catVars, clientVars, rangeVars, statsVars, cancelVars, routeVars, statusVars, uiVars>>

SpecBBox == InitBBox /\ [][NextBBox]_vars

InitRange ==
    /\ ChatInit /\ TokenInit /\ env = TRUE /\ GeoInit /\ CatalogIdle /\ ClientIdle /\ BBoxIdle
    /\ RangeInit /\ StatsIdle /\ CancelIdle /\ RouteIdle /\ StatusIdle /\ UIIdle

NextRange ==
    \/ ToolCallRange /\ UNCHANGED <<chatVars, tokenVars, geoVars, catVars, clientVars, bboxVars, statsVars, cancelVars, routeVars, statusVars, uiVars>>
    \/ QueryRange /\ UNCHANGED <<chatVars, tokenVars, geoVars, catVars, clientVars, bboxVars, statsVars, cancelVars, routeVars, statusVars, uiVars>>
    \/ ChatRange /\ UNCHANGED <<chatVars, tokenVars, geoVars, catVars, clientVars, bboxVars, statsVars, cancelVars, routeVars, statusVars, uiVars>>

SpecRange == InitRange /\ [][NextRange]_vars

InitStats ==
    /\ ChatInit /\ TokenInit /\ env = TRUE /\ GeoInit /\ CatalogIdle /\ ClientIdle /\ BBoxIdle
    /\ RangeIdle /\ StatsInit /\ CancelIdle /\ RouteIdle /\ StatusIdle /\ UIIdle

NextStats ==
    \/ ExtractStats /\ UNCHANGED <<chatVars, tokenVars, geoVars, catVars, clientVars, bboxVars, rangeVars, cancelVars, routeVars, statusVars, uiVars>>
    \/ StatsToolReturns /\ UNCHANGED <<chatVars, tokenVars, geoVars, catVars, clientVars, bboxVars, rangeVars, cancelVars, routeVars, statusVars, uiVars>>

SpecStats == InitStats /\ [][NextStats]_vars

InitCancel ==
    /\ ChatInit /\ TokenInit /\ env = TRUE /\ GeoInit /\ CatalogIdle /\ ClientIdle /\ BBoxIdle
    /\ RangeIdle /\ StatsIdle /\ CancelInit /\ RouteIdle /\ StatusIdle /\ UIIdle

NextCancel ==
    \/ \E p \in Callers : Call(p) /\ UNCHANGED <<chatVars, geoVars, catVars, clientVars, bboxVars, rangeVars, statsVars, cancelVars, routeVars, statusVars, uiVars>>
    \/ \E p \in Callers : ExchangeFails(p) /\ UNCHANGED <<chatVars, geoVars, catVars, clientVars, bboxVars, rangeVars, statsVars, cancelVars, routeVars, statusVars, uiVars>>
    \/ \E p \in Callers : ExchangeResponds(p) /\ UNCHANGED <<chatVars, geoVars, catVars, clientVars, bboxVars, rangeVars, statsVars, cancelVars, routeVars, statusVars, uiVars>>
    \/ \E p \in Callers : BodyFails(p) /\ UNCHANGED <<chatVars, geoVars, catVars, clientVars, bboxVars, rangeVars, statsVars, cancelVars, routeVars, statusVars, uiVars>>
    \/ \E p \in Callers : BodyArrives(p) /\ UNCHANGED <<chatVars, geoVars, catVars, clientVars, bboxVars, rangeVars, statsVars, cancelVars, routeVars, statusVars, uiVars>>
    \/ \E p \in Callers : EmitToolResult(p) /\ UNCHANGED <<chatVars, tokenVars, geoVars, catVars, clientVars, bboxVars, rangeVars, statsVars, routeVars, statusVars, uiVars>>
    \/ Cancel /\ UNCHANGED <<chatVars, geoVars, catVars, clientVars, bboxVars, rangeVars, statsVars, routeVars, statusVars, uiVars>>

SpecCancel == InitCancel /\ [][NextCancel]_vars

InitRoute ==
    /\ ChatInit /\ TokenInit /\ env = TRUE /\ GeoInit /\ CatalogIdle /\ ClientIdle /\ BBoxIdle
    /\ RangeIdle /\ StatsIdle /\ CancelIdle /\ RouteInit /\ StatusIdle /\ UIIdle

NextRoute ==
    \/ RouteHandles /\ UNCHANGED <<chatVars, tokenVars, geoVars, catVars, clientVars, bboxVars, rangeVars, statsVars, cancelVars, statusVars, uiVars>>
    \/ ServiceResolves /\ UNCHANGED <<chatVars, tokenVars, geoVars, catVars, clientVars, bboxVars, rangeVars, statsVars, cancelVars, statusVars, uiVars>>
    \/ ServiceThrows /\ UNCHANGED <<chatVars, tokenVars, geoVars, catVars, clientVars, bboxVars, rangeVars, statsVars, cancelVars, statusVars, uiVars>>

SpecRoute == InitRoute /\ [][NextRoute]_vars

InitStatus ==
    /\ ChatInit /\ TokenInit /\ env = TRUE /\ GeoInit /\ CatalogIdle /\ ClientIdle /\ BBoxIdle
    /\ RangeIdle /\ StatsIdle /\ CancelIdle /\ RouteIdle /\ StatusInit /\ UIIdle

NextStatus ==
    RenderStatus /\ UNCHANGED <<chatVars, tokenVars, geoVars, catVars, clientVars, bboxVars, rangeVars, statsVars, cancelVars, routeVars, uiVars>>

SpecStatus == InitStatus /\ [][NextStatus]_vars

InitUI ==
    /\ ChatInit /\ TokenInit /\ env = TRUE /\ GeoInit /\ CatalogIdle /\ ClientIdle /\ BBoxIdle
    /\ RangeIdle /\ StatsIdle /\ CancelIdle /\ RouteIdle /\ StatusIdle /\ UIInit

NextUI ==
    \/ TypeText /\ UNCHANGED <<chatVars, tokenVars, geoVars, catVars, clientVars, bboxVars, rangeVars, statsVars, cancelVars, routeVars, statusVars>>
    \/ OpenMap /\ UNCHANGED <<chatVars, tokenVars, geoVars, catVars, clientVars, bboxVars, rangeVars, statsVars, cancelVars, routeVars, statusVars>>
    \/ DrawShape /\ UNCHANGED <<chatVars, tokenVars, geoVars, catVars, clientVars, bboxVars, rangeVars, statsVars, cancelVars, routeVars, statusVars>>
    \/ RemoveShape /\ UNCHANGED <<chatVars, tokenVars, geoVars, catVars, clientVars, bboxVars, rangeVars, statsVars, cancelVars, routeVars, statusVars>>
    \/ handleConfirm /\ UNCHANGED <<chatVars, tokenVars, geoVars, catVars, clientVars, bboxVars, rangeVars, statsVars, cancelVars, routeVars, statusVars>>
    \/ handleMapCancel /\ UNCHANGED <<chatVars, tokenVars, geoVars, catVars, clientVars, bboxVars, rangeVars, statsVars, cancelVars, routeVars, statusVars>>
    \/ handleSubmit /\ UNCHANGED <<chatVars, tokenVars, geoVars, catVars, clientVars, bboxVars, rangeVars, statsVars, cancelVars, routeVars, statusVars>>
    \/ FetchSettles /\ UNCHANGED <<chatVars, tokenVars, geoVars, catVars, clientVars, bboxVars, rangeVars, statsVars, cancelVars, routeVars, statusVars>>
    \/ ResponseStarts /\ UNCHANGED <<chatVars, tokenVars, geoVars, catVars, clientVars, bboxVars, rangeVars, statsVars, cancelVars, routeVars, statusVars>>
    \/ ResponseEnds /\ UNCHANGED <<chatVars, tokenVars, geoVars, catVars, clientVars, bboxVars, rangeVars, statsVars, cancelVars, routeVars, statusVars>>
    \/ ResponseFails /\ UNCHANGED <<chatVars, tokenVars, geoVars, catVars, clientVars, bboxVars, rangeVars, statsVars, cancelVars, routeVars, statusVars>>

SpecUI == InitUI /\ [][NextUI]_vars

(***************************************************************************)
(* Claims about the agent loop, checked under Spec.                        *)
(***************************************************************************)

\* C1: one POST runs at most 5 model steps; when step 5 still holds tool calls
\* the loop ends after it, no 6th model request is made, and the outcome is the
\* transcript of steps 1..5 with finish reason "tool-calls", not an error.
C1_StepBudget ==
    /\ [](step <= 5 /\ Len(transcript) <= 5)
    /\ []((pc = "done" /\ finishReason = "tool-calls")
            => (step = 5 /\ Len(transcript) = 5
                /\ \A k \in 1..5 : transcript[k].hasToolCalls /\ transcript[k].resultsComplete))
    /\ [][(step = 5 /\ pc = "tools" /\ pc' # "tools")
            => (pc' = "done" /\ finishReason' = "tool-calls" /\ step' = 5
                /\ transcript' = Append(transcript, StepRecord(calls)))]_vars

C1_Witness ==
    pc = "done" /\ finishReason = "tool-calls" /\ step = 5 /\ Len(transcript) = 5

\* C2: whatever way the provider client fails (auth, HTTP status, network,
\* payload), the executor does not throw: the call completes with an
\* {error: message} value carrying the message, that value joins the transcript
\* and the loop goes on (next model request, or the normal end at step 5).
C2_ToolFailuresAreValues ==
    /\ [](\A i \in 1..Len(calls) :
            calls[i].threw
              => (calls[i].state = "completed" /\ calls[i].result.kind = "error"
                  /\ calls[i].result.error # ""))
    /\ [][(pc = "tools" /\ pc' # "tools" /\ \E i \in 1..Len(calls) : calls[i].threw)
            => (/\ transcript' = Append(transcript, StepRecord(calls))
                /\ transcript'[Len(transcript')].resultsComplete
                /\ finishReason' # "error"
                /\ (step < 5 => (pc' = "model" /\ step' = step + 1)))]_vars

C2_Witness ==
    /\ pc = "tools"
    /\ \E i \in 1..Len(calls) :
          /\ calls[i].threw
          /\ calls[i].tool = "generateTrueColor"
          /\ calls[i].result = ErrorValue("Sentinel Hub Process API failed")

\* C3: a call to a Sentinel tool whose bbox is not an array of exactly 4 numbers
\* is rejected with a validation error, its executor never runs, and it sends
\* no request to any endpoint.
C3_BadBBoxRejected ==
    \A i \in 1..Len(calls) :
        (calls[i].tool \in SentinelTools
         /\ ~(Len(calls[i].input.bbox) = 4
              /\ \A k \in 1..Len(calls[i].input.bbox) : calls[i].input.bbox[k].t = "number"))
          => (calls[i].state = "errored" /\ calls[i].result.kind = "invalid_input"
              /\ calls[i].requests = {} /\ ~calls[i].threw)

C3_Witness ==
    \E i \in 1..Len(calls) :
        /\ calls[i].tool = "getVegetationStats"
        /\ calls[i].input.bbox = BBoxLen3
        /\ calls[i].state = "errored"

IsDayBound(s) ==
    /\ Len(s) = 20
    /\ IsWellFormedDate(SubSeq(s, 1, 10))
    /\ SubSeq(s, 11, 20) \in {DayStart, DayEnd}

\* C4: a tool call whose date string is not a well-formed date is rejected
\* before its executor runs, so no request to the catalog, statistics or
\* process endpoint carries a malformed date.
C4_NoMalformedDateSent ==
    \A i \in 1..Len(calls) :
        \A r \in calls[i].requests :
            r.url \in {"catalog", "statistics", "process"}
              => (IsDayBound(r.from) /\ IsDayBound(r.to))

\* C5: a further model request is made only when the step just finished held
\* at least one tool call and fewer than 5 steps have run; once the model
\* answers without a tool call the request is over: no model request and no
\* tool execution follows.
C5_ContinueOnlyAfterToolCalls ==
    /\ [][step' # step
            => (/\ step' = step + 1
                /\ pc = "tools" /\ Len(calls) >= 1
                /\ step < 5
                /\ pc' = "model")]_vars
    /\ [][(pc = "model" /\ transcript' # transcript)
            => (pc' = "done" /\ finishReason' = "stop" /\ step' = step /\ calls' = <<>>)]_vars
    /\ [][pc = "done" => UNCHANGED chatVars]_vars

C5_Witness ==
    pc = "done" /\ finishReason = "stop" /\ step = 3 /\ Len(transcript) = 3 /\ calls = <<>>

\* C6: the model request of step N+1 is made only after every tool call of
\* step N has finished, and it carries the transcript that holds their results.
C6_StepsSequential ==
    /\ [](pc = "model"
            => (/\ calls = <<>>
                /\ sent = step - 1
                /\ sent = Len(transcript)
                /\ \A k \in 1..sent : transcript[k].resultsComplete))
    /\ [][step' = step + 1
            => (/\ \A i \in 1..Len(calls) : calls[i].state # "pending"
                /\ transcript' = Append(transcript, StepRecord(calls))
                /\ sent' = Len(transcript'))]_vars

C6_Witness ==
    /\ pc = "model"
    /\ step = 3
    /\ sent = 2
    /\ transcript[2].hasToolCalls /\ transcript[2].resultsComplete

\* C7: the loop does not gate statistics or imagery on the search: a
\* getVegetationStats, generateNDVI or generateTrueColor call with schema-valid
\* arguments is always handed to its executor, whatever searchScenes did before.
C7_NoOrderingGate ==
    \A i \in 1..Len(calls) :
        (calls[i].tool \in DateTools /\ inputSchema(calls[i].tool, calls[i].input))
          => /\ calls[i].state \in {"pending", "completed"}
             /\ calls[i].result.kind # "invalid_input"

\* statistics were requested and returned for a date no search returned, after
\* the last search of the request had found nothing
C7_Witness ==
    /\ lastSearch = "not_found"
    /\ \E i \in 1..Len(calls) :
          /\ calls[i].tool = "getVegetationStats"
          /\ calls[i].state = "completed"
          /\ calls[i].result.kind = "output"
          /\ calls[i].input.date.s \notin returnedDates
          /\ \E r \in calls[i].requests : r.url = "statistics"

(***************************************************************************)
(* Claims about the credential cache, checked under SpecToken.             *)
(***************************************************************************)

\* the step in which caller p calls getAccessToken (a call that returns the
\* value the caller already holds changes nothing and is not seen)
CallStep(p) ==
    /\ tpc[p] \notin {"fetch", "json"}
    /\ tpc'[p] # tpc[p] \/ tret'[p] # tret[p]

\* the expiry line 128-130 gives the response caller p holds
OwnExp(p) ==
    IF tres[p].expires_in # 0
    THEN tnow[p] + tres[p].expires_in
    ELSE tres[p].access_token.exp

\* C8 as stated: in a sequential run, a call made while the cached token is
\* still valid (now < exp) causes no credential exchange.
C8_NoExchangeWhileValid ==
    [][\A p \in Callers :
          (/\ CallStep(p)
           /\ \A q \in Callers : tpc[q] \notin {"fetch", "json"}
           /\ cachedToken # NoToken
           /\ now < cachedToken.exp)
            => (exchanges' = exchanges /\ tpc'[p] = "returned")]_vars

\* C8 (amended): a call made while the cached token's expiry is more than 60 s
\* ahead causes no exchange and returns the cached token, so two such calls
\* share one exchange; a call made once the remaining lifetime is 60 s or less,
\* and so any call after the expiry, sends a new exchange request.
C8_OneExchangePerFreshWindow ==
    [][\A p \in Callers :
          CallStep(p)
            => /\ (cachedToken # NoToken /\ cachedToken.exp > now + 60)
                    => (/\ exchanges' = exchanges
                        /\ tpc'[p] = "returned"
                        /\ tret'[p] = cachedToken.access_token)
               /\ (cachedToken # NoToken /\ cachedToken.exp <= now + 60)
                    => (exchanges' = exchanges + 1 /\ tpc'[p] = "fetch")]_vars

\* caller 2 exchanged once, caller 1 was served that token from the cache, and
\* caller 2, calling again after the expiry, has sent a second exchange
C8_Witness ==
    /\ exchanges = 2
    /\ tpc[1] = "returned"
    /\ tret[1] = cachedToken.access_token
    /\ tret[1].id = 1 * NumCallers + 2
    /\ tpc[2] = "fetch"
    /\ cachedToken.exp > 0
    /\ tnow[2] >= cachedToken.exp

\* C9 as stated: the cached token is returned without a request exactly when
\* its expiry is more than 60 s ahead; in every other case the call performs
\* an exchange and replaces the cache with the new token and its expiry.
C9_ExchangeInEveryOtherCase ==
    /\ [][\A p \in Callers :
            CallStep(p)
              => IF cachedToken # NoToken /\ cachedToken.exp > now + 60
                 THEN /\ tpc'[p] = "returned"
                      /\ tret'[p] = cachedToken.access_token
                      /\ exchanges' = exchanges
                 ELSE exchanges' = exchanges + 1]_vars
    /\ [][\A p \in Callers :
            (tpc[p] \in {"fetch", "json"} /\ tpc'[p] \notin {"fetch", "json"})
              => (/\ tpc'[p] = "returned"
                  /\ cachedToken' = [access_token |-> tres[p].access_token, exp |-> OwnExp(p)])]_vars

\* C9 (amended): the cached token is returned without a request exactly when a
\* token is cached and its expiry is more than 60 s after now; otherwise the
\* call throws at once when the client credentials are missing, and else sends
\* an exchange request; when the exchange succeeds the cache is replaced by the
\* new token and its expiry, and when it fails the call throws and the cache
\* stays as it was.
C9_CacheCheck ==
    /\ [][\A p \in Callers :
            CallStep(p)
              => LET fresh == cachedToken # NoToken /\ cachedToken.exp > now + 60
                 IN  /\ fresh <=> tpc'[p] = "returned"
                     /\ fresh => (/\ tret'[p] = cachedToken.access_token
                                  /\ exchanges' = exchanges
                                  /\ cachedToken' = cachedToken)
                     /\ (~fresh /\ env) => (exchanges' = exchanges + 1 /\ tpc'[p] = "fetch")
                     /\ (~fresh /\ ~env) => (/\ tpc'[p] = "thrown"
                                             /\ exchanges' = exchanges
                                             /\ cachedToken' = cachedToken)]_vars
    /\ [][\A p \in Callers :
            (tpc[p] = "json" /\ tpc'[p] = "returned")
              => cachedToken' = [access_token |-> tres[p].access_token, exp |-> OwnExp(p)]]_vars
    /\ [][\A p \in Callers :
            (tpc[p] \in {"fetch", "json"} /\ tpc'[p] = "thrown")
              => cachedToken' = cachedToken]_vars

\* a call made exactly 60 s before the cached expiry has sent a new exchange
C9_Witness ==
    \E p \in Callers :
        /\ tpc[p] = "fetch"
        /\ exchanges = 2
        /\ cachedToken # NoToken
        /\ cachedToken.exp = tnow[p] + 60
        /\ \A q \in Callers \ {p} : tpc[q] = "returned" /\ tret[q] = cachedToken.access_token

\* C10: when calls overlap, each call that gets a token response returns the
\* token of its own response; every write to the cache stores the token and the
\* expiry of one and the same response; and a step of one call leaves the other
\* calls' state alone, so none fails or returns an empty token for the race.
C10_RaceIsHarmless ==
    /\ [][cachedToken' # cachedToken
            => \E p \in Callers :
                  /\ tpc[p] = "json"
                  /\ tpc'[p] = "returned"
                  /\ cachedToken'.access_token = tres[p].access_token
                  /\ cachedToken'.exp = OwnExp(p)]_vars
    /\ [][\A p \in Callers :
            (tpc[p] = "json" /\ tpc'[p] = "returned")
              => (tret'[p] = tres[p].access_token /\ tret'[p] # NoJwt)]_vars
    /\ [][\A p, q \in Callers :
            (p # q /\ tpc'[q] # tpc[q])
              => (/\ tpc'[p] = tpc[p] /\ tnow'[p] = tnow[p]
                  /\ tres'[p] = tres[p] /\ tret'[p] = tret[p])]_vars

\* both calls were in flight together (each response came after both requests
\* had been sent), each returned the token of its own response, and the cache
\* holds the token and the expiry of the response written last
C10_Witness ==
    /\ exchanges = 2
    /\ now = 30
    /\ tpc[1] = "returned" /\ tpc[2] = "returned"
    /\ tret[1].id = 2 * NumCallers + 1
    /\ tret[2].id = 2 * NumCallers + 2
    /\ cachedToken.access_token = tret[1]
    /\ cachedToken.exp = 30 + 90

\* the endpoints one invocation of a tool may ask, in the order it asks them
\* (the token endpoint only when the cached token is not fresh)
Endpoints(tool) ==
    CASE tool = "lookupLocation" -> <<"nominatim">>
      [] tool = "searchScenes" -> <<"token", "catalog">>
      [] tool = "getVegetationStats" -> <<"token", "statistics">>
      [] OTHER -> <<"token", "process">>

\* C13: no provider client retries: within one tool invocation each endpoint
\* is requested at most once, and a request that fails is followed by no
\* further request; the failure is the invocation's result.
C13_NoRetries ==
    \A i \in 1..Len(calls) :
        LET c == calls[i]
            asked == {r.url : r \in c.requests}
            chain == Endpoints(c.tool)
        IN  /\ \A r \in c.requests : r.attempt = 1
            /\ \A u \in asked : Cardinality({r \in c.requests : r.url = u}) = 1
            /\ asked \subseteq {chain[k] : k \in 1..Len(chain)}
            /\ (c.threw /\ c.result.error = "Sentinel Hub auth failed") => asked = {"token"}
            /\ c.threw => (c.state = "completed" /\ c.result.kind = "error")

\* a catalog search failed with a non-success status after a token exchange:
\* one token request, one catalog request, and the failure as the result
C13_Witness ==
    \E i \in 1..Len(calls) :
        /\ calls[i].tool = "searchScenes"
        /\ calls[i].threw
        /\ calls[i].result = ErrorValue("Sentinel Hub Catalog search failed")
        /\ {r.url : r \in calls[i].requests} = {"token", "catalog"}
        /\ Cardinality(calls[i].requests) = 2

(***************************************************************************)
(* Claims about the geocoder's rate limiter, checked under SpecGeo.        *)
(***************************************************************************)

\* the step in which lookupLocation call p runs rateLimit
LookupStep(p) == gpc[p] = "idle" /\ gpc'[p] # "idle"

C12_RequestsSpacedByRateLimit ==
    \A i, j \in 1..Len(sentAt) :
        i < j => sentAt[j] - sentAt[i] >= 1000

(***************************************************************************)
(* Claims about the catalog client, checked under SpecCatalog.             *)
(***************************************************************************)

\* the features of the response (none when the list is absent)
ResponseFeatures == IF cdata.hasFeatures THEN cdata.features ELSE <<>>

Answered == cpc = "picked" \/ (cpc = "settled" /\ cresult.kind # "error")

\* C14: for a non-empty feature list searchSatelliteImages returns the feature
\* with the greatest datetime, the first of them in the response's order when
\* several share it, and the response list stays as the catalog sent it.
C14_NewestFirstInResponseOrder ==
    /\ []((Answered /\ Len(ResponseFeatures) > 0)
            => \E i \in 1..Len(ResponseFeatures) :
                  /\ cscene = Scene(ResponseFeatures[i])
                  /\ \A j \in 1..Len(ResponseFeatures) :
                        ResponseFeatures[j].datetime <= ResponseFeatures[i].datetime
                  /\ \A j \in 1..(i - 1) :
                        ResponseFeatures[j].datetime < ResponseFeatures[i].datetime)
    /\ [][cdata' = cdata]_vars

\* three features, the second and third sharing the greatest datetime: the
\* second is returned
C14_Witness ==
    /\ cpc = "picked"
    /\ Len(cdata.features) = 3
    /\ cdata.features[1].datetime = 1
    /\ cdata.features[2].datetime = 2
    /\ cdata.features[3].datetime = 2
    /\ cscene.found /\ cscene.id = 2

\* C15: the returned scene is the most recent one and also the one with the
\* lowest cloud cover of the response, and its cloud cover is below 10.
C15_NewestAndCleanest ==
    (Answered /\ Len(ResponseFeatures) > 0)
      => /\ cscene.found
         /\ \A j \in 1..Len(ResponseFeatures) :
               /\ ResponseFeatures[j].datetime <= cscene.timestamp
               /\ ResponseFeatures[j].cloud >= cscene.cloudCover
         /\ cscene.cloudCover < 10

\* C16: when the catalog answers successfully with no feature (an empty or an
\* absent list) searchSatelliteImages returns null and the tool's result is
\* {found: false}; that result is given in no other case, so it is told apart
\* from {found: true, ...} and from {error}.
C16_NoSceneIsNotAnError ==
    /\ []((cpc = "picked" /\ Len(ResponseFeatures) = 0) => ~cscene.found)
    /\ [][(cpc = "picked" /\ Len(ResponseFeatures) = 0)
            => (cpc' = "settled" /\ cresult' = SceneNotFound)]_vars
    /\ []((cpc = "settled" /\ cresult.kind = "found_false")
            => (Len(ResponseFeatures) = 0 /\ cresult.error = ""))
    /\ []((cpc = "settled" /\ cresult.kind = "found_true")
            => (Len(ResponseFeatures) > 0 /\ cresult.scene = cscene /\ cscene.found))

\* the response had no `features` at all and the tool answered {found: false}
C16_Witness ==
    /\ cpc = "settled"
    /\ ~cdata.hasFeatures
    /\ cresult = SceneNotFound

(***************************************************************************)
(* Claims about the provider clients, checked under SpecClient.            *)
(***************************************************************************)

\* the provider answered the invocation with a failure: a rejected token
\* exchange, or a network error, a non-success status or an unreadable body
\* at the endpoint
ProviderFailed ==
    IF kcall.tool = "lookupLocation"
    THEN kcall.o.api \in {"network", "http", "parse"}
    ELSE \/ kcall.o.auth = "auth_failed"
         \/ kcall.o.auth \in {"cached", "exchanged"} /\ kcall.o.api \in {"network", "http", "parse"}

\* C17: every provider client reports a non-success status, a network error or
\* a malformed payload to its caller as a failure carrying a message, never as
\* a normal or "not found" result; so a non-success status from the geocoder
\* reaches the lookupLocation tool as a failure, not as "no match".
C17_ProviderFailuresAreFailures ==
    (kret # NotCalled /\ ProviderFailed)
      => /\ kret.threw
         /\ kret.msg # ""
         /\ kres.result = ErrorValue(kret.msg)

(***************************************************************************)
(* Claims about bounding boxes, checked under SpecBBox.                    *)
(***************************************************************************)

\* C18: for every bounding box [minLon, minLat, maxLon, maxLat] bboxToPolygon
\* returns a Polygon whose ring has exactly 5 points, the last equal to the
\* first, the first four being the corners (minLon,minLat), (maxLon,minLat),
\* (maxLon,maxLat), (minLon,maxLat) in this order.
C18_ClosedRingOfFiveCorners ==
    /\ (bpc = "done" /\ bval # NoBBox
        /\ (bin.kind = "getVegetationStats" \/ (bin.path = "chat" /\ bin.kind = "stats")))
          => bpoly # NoPolygon
    /\ bpoly # NoPolygon
          => /\ bpoly.type = "Polygon"
             /\ Len(bpoly.coordinates) = 5
             /\ bpoly.coordinates[5] = bpoly.coordinates[1]
             /\ bpoly.coordinates[1] = <<bval[1], bval[2]>>
             /\ bpoly.coordinates[2] = <<bval[3], bval[2]>>
             /\ bpoly.coordinates[3] = <<bval[3], bval[4]>>
             /\ bpoly.coordinates[4] = <<bval[1], bval[4]>>

\* the chat text "stats for -5,10,10,11 on ..." gave the ring of its box
C18_Witness ==
    /\ bin.path = "chat"
    /\ bin.kind = "stats"
    /\ bval = <<Num(0 - 5), Num(10), Num(10), Num(11)>>
    /\ bpoly.coordinates =
          << <<Num(0 - 5), Num(10)>>, <<Num(10), Num(10)>>, <<Num(10), Num(11)>>,
             <<Num(0 - 5), Num(11)>>, <<Num(0 - 5), Num(10)>> >>

\* C19: for a geocoder answer whose boundingbox has 4 numeric entries in the
\* order [minLat, maxLat, minLon, maxLon], lookupLocation returns
\* [minLon, minLat, maxLon, maxLat] of the same values, with minLon <= maxLon
\* and minLat <= maxLat; when an entry is not numeric, or the boundingbox is
\* absent or not of length 4, it returns null.
C19_GeocoderBBoxNormalized ==
    (bpc = "done" /\ bin.path = "geocoder")
      => LET bb == bin.strs
             numeric == bin.has /\ Len(bb) = 4 /\ \A i \in 1..Len(bb) : IsNumeral(bb[i])
         IN  /\ (numeric /\ NumeralValue(bb[1]) <= NumeralValue(bb[2])
                         /\ NumeralValue(bb[3]) <= NumeralValue(bb[4]))
                  => /\ bval = <<Num(NumeralValue(bb[3])), Num(NumeralValue(bb[1])),
                                 Num(NumeralValue(bb[4])), Num(NumeralValue(bb[2]))>>
                     /\ bval[1].n <= bval[3].n
                     /\ bval[2].n <= bval[4].n
             /\ ~numeric => bval = NoBBox

\* C20: every bounding box that reaches a provider client, from a tool call,
\* from the /api/satellite query string or from the chat parser, satisfies
\* minLon <= maxLon and minLat <= maxLat.
C20_ReachedBBoxIsOrdered ==
    bclient # "none"
      => /\ Len(bval) = 4
         /\ bval[1].n <= bval[3].n
         /\ bval[2].n <= bval[4].n

(***************************************************************************)
(* Claims about date ranges, checked under SpecRange.                      *)
(***************************************************************************)

\* C21: every date range passed to searchSatelliteImages satisfies from <= to,
\* on each of the three paths that reach it: the searchScenes tool, the
\* /api/satellite search route, and a search intent of parseUserIntent.
C21_RangeIsOrdered ==
    rreq # NoReq => ~StringLess(rreq.to, rreq.from)

(***************************************************************************)
(* Claims about NDVI statistics, checked under SpecStats.                  *)
(***************************************************************************)

\* C22: extractNDVIStatsForLLM returns the stats under band key B0 when B0
\* carries stats; when B0 is absent it returns the stats of the first band key;
\* it returns null exactly when the response has no first interval, no ndvi
\* output, no bands, or no stats under the key it chose (B0, else the first
\* key), and then the getVegetationStats tool returns an {error} value and not
\* a statistics object.
C22_StatsFromB0OrFirstKey ==
    LET bands == sresp.bands
        b0 == IF \E i \in 1..Len(bands) : bands[i].key = "B0" /\ bands[i].stats # NoStats
              THEN {bands[i].stats : i \in {j \in 1..Len(bands) : bands[j].key = "B0"}}
              ELSE {}
        first == IF Len(bands) > 0 /\ bands[1].stats # NoStats THEN {bands[1].stats} ELSE {}
        b0Absent == \A i \in 1..Len(bands) : bands[i].key # "B0"
    IN  /\ spc \in {"extracted", "returned"} =>
            /\ (sresp.level = "bands" /\ b0 # {}) => sstats \in b0
            /\ (sresp.level = "bands" /\ b0Absent /\ first # {}) => sstats \in first
            /\ sstats = NoStats <=>
                  \/ sresp.level \in {"no_interval", "no_outputs", "no_ndvi", "no_bands"}
                  \/ Len(bands) = 0
                  \/ (b0 = {} /\ first = {})
        /\ spc = "returned" =>
            /\ sstats = NoStats => sresult.result.kind = "error"
            /\ sstats # NoStats => (sresult.result.kind = "output" /\ sresult.stats = sstats)

\* B0 is absent, the first key carries stats, and the tool returned them
C22_Witness ==
    /\ spc = "returned"
    /\ sresp = StatsResponse("bands", <<Band("B1", "statsA"), Band("B2", "statsB")>>)
    /\ sstats = "statsA"
    /\ sresult.result.kind = "output"


(***************************************************************************)
(* Claims about cancellation, checked under SpecCancel.                    *)
(***************************************************************************)

\* C23: when the caller cancels while a request is running, no further stream
\* events are emitted to that caller afterwards; tool executors already in
\* flight are not aborted (the cancellation leaves each where it was, and each
\* can still take its next step up to its return); and effects of tool calls
\* already made, such as a token written to the credential cache, are not
\* rolled back (after the cancellation the cache changes only by an executor's
\* write of a new token).
C23_CancelStopsEmissionOnly ==
    /\ [][xconn = "closed" => (xconn' = "closed" /\ xevents' = xevents)]_vars
    /\ [][(xconn = "open" /\ xconn' = "closed")
            => (tpc' = tpc /\ cachedToken' = cachedToken /\ tres' = tres
                /\ tret' = tret /\ exchanges' = exchanges)]_vars
    /\ [](xconn = "closed" =>
            \A p \in Callers :
                /\ tpc[p] = "fetch" => ENABLED ExchangeResponds(p)
                /\ tpc[p] = "json" => ENABLED BodyArrives(p))
    /\ [][(xconn = "closed" /\ cachedToken' # cachedToken)
            => \E p \in Callers : /\ tpc[p] = "json" /\ tpc'[p] = "returned"
                                  /\ cachedToken' = TokenObject(p)]_vars

\* an executor that was in flight when the caller cancelled has since written
\* its token to the cache and returned, and no event went to the caller
C23_Witness ==
    /\ xconn = "closed"
    /\ xcache = NoToken
    /\ cachedToken # NoToken
    /\ \E p \in Callers : tpc[p] = "returned" /\ p \notin xevents


(***************************************************************************)
(* Further claims about the credential cache, checked under SpecToken.     *)
(***************************************************************************)

MissingCredentials == "Missing SENTINEL_CLIENT_ID or SENTINEL_CLIENT_SECRET in environment"

\* C24: when SENTINEL_CLIENT_ID or SENTINEL_CLIENT_SECRET is missing, every
\* operation that needs the imagery provider (catalog search, statistics, NDVI
\* or true-color image) fails with the explicit "Missing SENTINEL_CLIENT_ID or
\* SENTINEL_CLIENT_SECRET" error before any network request is sent, and the
\* credential cache is left unchanged.
C24_MissingCredentialsFailFirst ==
    /\ [][\A p \in Callers :
            (CallStep(p) /\ ~env)
              => (/\ tpc'[p] = "thrown"
                  /\ tret'[p] = NoJwt
                  /\ exchanges' = exchanges
                  /\ cachedToken' = cachedToken)]_vars
    /\ [](~env => (exchanges = 0 /\ cachedToken = NoToken
                   /\ \A p \in Callers : tpc[p] \in {"idle", "thrown"}))
    /\ [](\A p \in Callers :
            (~env /\ tpc[p] = "thrown")
              => \A tool \in SentinelTools, api \in ApiOutcomes :
                    LET o == [auth |-> "missing_env", api |-> api, date |-> Date1]
                        r == ProviderClient(tool, ValidInput(tool), o)
                        e == execute(tool, ValidInput(tool), o)
                    IN  /\ r.threw
                        /\ r.msg = MissingCredentials
                        /\ r.requests = {}
                        /\ e.result = ErrorValue(MissingCredentials)
                        /\ e.requests = {})

\* the credentials are missing and both callers' getAccessToken has thrown
C24_Witness ==
    /\ ~env
    /\ \A p \in Callers : tpc[p] = "thrown"
    /\ exchanges = 0
    /\ cachedToken = NoToken

\* C27: a getAccessToken call whose credential exchange fails (non-success
\* status or network error) throws and leaves cachedToken as it was: neither
\* sending the request nor the failure changes the cache; no partial or empty
\* token is ever cached; and the next call, finding no fresh token, attempts a
\* new exchange.
C27_FailedExchangeLeavesCache ==
    /\ [][\A p \in Callers :
            (tpc[p] = "fetch" /\ tpc'[p] # "fetch" /\ tpc'[p] # "json")
              => (/\ tpc'[p] = "thrown"
                  /\ tret'[p] = NoJwt
                  /\ cachedToken' = cachedToken)]_vars
    /\ [][\A p \in Callers :
            (tpc[p] # "fetch" /\ tpc'[p] = "fetch") => cachedToken' = cachedToken]_vars
    /\ [](cachedToken # NoToken => cachedToken.access_token # NoJwt)
    /\ [][\A p \in Callers :
            (/\ tpc[p] = "thrown" /\ env /\ CallStep(p)
             /\ ~(cachedToken # NoToken /\ cachedToken.exp > now + 60))
              => (tpc'[p] = "fetch" /\ exchanges' = exchanges + 1)]_vars

\* caller 1 exchanged once and cached a token that is not fresh, exchanged
\* again and failed: the cache still holds the token of the first exchange
C27_Witness ==
    /\ tpc[1] = "thrown"
    /\ tpc[2] = "idle"
    /\ exchanges = 2
    /\ cachedToken # NoToken
    /\ cachedToken.access_token.id = NumCallers + 1

(***************************************************************************)
(* Claims about GET /api/satellite, checked under SpecRoute.               *)
(***************************************************************************)

\* the text is exactly 4 comma-separated numbers
IsFourNumbers(v) ==
    /\ v.t = "string"
    /\ LET parts == Split(v.s, ",")
       IN  Len(parts) = 4 /\ \A i \in 1..4 : IsNumeral(parts[i])

\* the query passes the validation the claim describes
ValidQuery(q) ==
    CASE q.action = "search" -> Param(q.p1) /\ Param(q.p2) /\ IsFourNumbers(q.bbox)
      [] q.action = "ndvi-image" -> Param(q.p1) /\ IsFourNumbers(q.bbox)
      [] q.action = "stats" -> Param(q.p1) /\ q.geometry \in {"polygon", "polygon_without_ring"}
      [] OTHER -> FALSE

\* C28: GET /api/satellite calls a service function only after its inputs pass
\* validation: for action search, ndvi-image or stats, a missing required
\* parameter, a bbox that is not exactly 4 numbers, or a geometry that is not
\* parseable JSON of type Polygon yields status 400 and no service call; an
\* unknown or absent action yields the usage document with status 200 and no
\* service call; an error thrown by a service call yields status 500 with
\* {error: message}.
C28_ServiceCalledOnlyAfterValidation ==
    /\ qcalled # "none" => ValidQuery(qreq)
    /\ (qpc = "answered" /\ qreq.action \in {"search", "ndvi-image", "stats"}
        /\ ~ValidQuery(qreq))
          => (qresp.status = 400 /\ qresp.body = "error" /\ qcalled = "none")
    /\ (qpc = "answered" /\ qreq.action \notin {"search", "ndvi-image", "stats"})
          => (qresp = Answer(200, "usage", "") /\ qcalled = "none")
    /\ (qpc = "answered" /\ qresp.status = 500)
          => (qcalled # "none" /\ qresp.body = "error" /\ qresp.error \in ServiceErrors)


(***************************************************************************)
(* Claims about the tool status indicator, checked under SpecStatus.       *)
(***************************************************************************)

\* the index of the last assistant message, 0 when there is none
LastAssistant(messages) ==
    IF \E i \in 1..Len(messages) : messages[i].role = "assistant"
    THEN CHOOSE i \in 1..Len(messages) :
            /\ messages[i].role = "assistant"
            /\ \A j \in (i + 1)..Len(messages) : messages[j].role # "assistant"
    ELSE 0

\* C26: getActiveToolStatus derives the tool status from the last assistant
\* message only: it returns a label exactly when the last assistant message
\* holds a tool part that is still pending, and null when that message holds no
\* pending tool part, even if an earlier assistant message still holds one.
C26_StatusFromLastAssistantOnly ==
    mpc = "rendered" =>
        LET last == LastAssistant(mmsgs)
            pending == /\ last # 0
                       /\ \E k \in 1..Len(mmsgs[last].parts) : IsPending(mmsgs[last].parts[k])
        IN  mstatus # "null" <=> pending


(***************************************************************************)
(* Claims about the chat UI, checked under SpecUI.                         *)
(***************************************************************************)

\* C25: confirming a map selection sets the chat input to the comma-separated
\* bbox and leaves map-selection mode; cancelling leaves map-selection mode and
\* leaves the chat input unchanged; neither sends a message or changes the
\* transcript; and the confirm callback is never invoked while no shape is drawn.
C25_MapSelectionOnlySetsInput ==
    /\ [][ucallback' = "onConfirm"
            => (/\ umap /\ ~umap'
                /\ ulayers # {}
                /\ \E w \in {l[1] : l \in ulayers}, s \in {l[2] : l \in ulayers},
                      e \in {l[3] : l \in ulayers}, n \in {l[4] : l \in ulayers} :
                      /\ \A l \in ulayers : w <= l[1] /\ s <= l[2] /\ e >= l[3] /\ n >= l[4]
                      /\ uinput' = NumberToString(Num(w)) \o <<",">> \o NumberToString(Num(s))
                                   \o <<",">> \o NumberToString(Num(e)) \o <<",">>
                                   \o NumberToString(Num(n))
                /\ umessages' = umessages /\ uflight' = uflight /\ ustatus' = ustatus)]_vars
    /\ [][(umap /\ ~umap' /\ ucallback' = "onCancel")
            => (/\ uinput' = uinput
                /\ umessages' = umessages /\ uflight' = uflight /\ ustatus' = ustatus)]_vars
    /\ [][(umap /\ ~umap') => ucallback' \in {"onConfirm", "onCancel"}]_vars
    /\ [][(umap /\ ulayers = {}) => ucallback' # "onConfirm"]_vars

\* two shapes were drawn and confirmed: the input holds the bounds of both
C25_Witness ==
    /\ ucallback = "onConfirm"
    /\ ~umap
    /\ uinput = <<"-", "5", ",", "1", "0", ",", "1", "1", ",", "5", "1">>
    /\ Len(umessages) = 2


\* C29: in the rule-based ChatArea the transcript strictly alternates user and
\* assistant messages, starting with a user message: every accepted submit
\* appends exactly one user message and later exactly one assistant message
\* with non-empty content, whether the satellite request succeeds, returns an
\* error status or throws, and isLoading is false again afterwards.
C29_TranscriptAlternates ==
    /\ [](uvariant = "rule" =>
            /\ \A i \in 1..Len(umessages) :
                  /\ umessages[i].role = IF i % 2 = 1 THEN "user" ELSE "assistant"
                  /\ umessages[i].content # <<>>
            /\ IsLoading <=> Len(umessages) % 2 = 1
            /\ IsLoading <=> uflight = 1
            /\ uflight \in {0, 1})
    /\ [][(uvariant = "rule" /\ uflight' < uflight)
            => (/\ Len(umessages') = Len(umessages) + 1
                /\ umessages'[Len(umessages')].role = "assistant"
                /\ umessages'[Len(umessages')].content # <<>>
                /\ ustatus' = "ready")]_vars
    /\ [][(uvariant = "rule" /\ umessages' # umessages)
            => (/\ SubSeq(umessages', 1, Len(umessages)) = umessages
                /\ Len(umessages') - Len(umessages) \in {1, 2}
                /\ ustatus' = "ready" => Len(umessages') % 2 = 0)]_vars

\* two submits were accepted and answered: the first with an image, the
\* second with one text item (an error status, a thrown request or no intent)
C29_Witness ==
    /\ uvariant = "rule"
    /\ Len(umessages) = 4
    /\ ustatus = "ready"
    /\ uflight = 0
    /\ umessages[2].content = <<"ndvi-image", "text">>
    /\ umessages[4].content = <<"text">>

\* C30: a submit in the chat UI is ignored (no message appended, no request
\* sent, input unchanged) when the trimmed input is empty or a request is in
\* progress, so at most one chat request is in flight per ChatArea at any time.
C30_SubmitIgnoredWhenEmptyOrLoading ==
    /\ [][(ucallback' = "handleSubmit"
           /\ (\A i \in 1..Len(uinput) : uinput[i] = " "
               \/ ustatus \in {"submitted", "streaming"}))
            => (/\ umessages' = umessages
                /\ uflight' = uflight
                /\ uinput' = uinput
                /\ ustatus' = ustatus)]_vars
    /\ [][uflight' > uflight
            => (/\ ucallback' = "handleSubmit"
                /\ uflight = 0
                /\ ustatus \notin {"submitted", "streaming"}
                /\ \E i \in 1..Len(uinput) : uinput[i] # " ")]_vars
    /\ [](uflight <= 1)

\* a submit event arrived while the answer was streaming and changed nothing
C30_Witness ==
    /\ uvariant = "agent"
    /\ ucallback = "handleSubmit"
    /\ ustatus = "streaming"
    /\ uflight = 1
    /\ Len(umessages) = 2

====
